---- MODULE Spec2Model ----
(***************************************************************************)
(* Agent session manager of lib/common/agents.py (class Agents).          *)
(*                                                                         *)
(* The store is modelled at the level of the SQL statements the code      *)
(* emits: a statement that has been executed is visible to every later    *)
(* read.  An attribute assigned on an ORM object is held in the session   *)
(* of the assigning thread (Session is a scoped, per-thread session) and  *)
(* reaches the store when that session next flushes: at its next query    *)
(* (autoflush) or commit.  Transaction isolation and the database engine  *)
(* itself are outside the model.                                          *)
(***************************************************************************)
EXTENDS Integers, Sequences, FiniteSets, TLC

VARIABLES
  agents,      \* self.agents: session_id -> cached session key
  dbAgents,    \* table agents: session_id -> row
  taskRows,    \* table taskings: sequence of rows [id, agent]
  resultRows,  \* table results: sequence of rows [id, agent, data]
  dirty,       \* per thread: rows whose taskings = '' assignment is not flushed yet
  dirs,        \* directories below <install>/downloads/ that hold an agent.log
  files,       \* files written by save_file: absolute path -> chunks written
  autorun,     \* config row: a global autorun is set
  diskFull,    \* the filesystem refuses to create or open a file
  fileDirectory, \* table file_directory: its rows, and whether foreign keys are enforced
  delivered,   \* every task handed to an agent so far, in order (history)
  last,        \* the last finished public call: its inputs, what it saw, its outcome
  pc,          \* per thread: where it is inside a call, with the locals of the call
  lock         \* self.lock: the thread that holds it, or None

vars == <<agents, dbAgents, taskRows, resultRows, dirty, dirs, files, autorun, diskFull,
          fileDirectory, delivered, last, pc, lock>>

----------------------------------------------------------------------------
(* Bounds and universes *)

SessionIds == {"s1", "s2"}
Threads    == {"t1", "t2"}
Nonces     == {3, 7}
Keys       == {"k1", "k2"}
Languages  == {"powershell", "python", "ruby"}
Domains    == {"", "CORP"}
Opcodes    == {"TASK_SHELL", "TASK_EXIT", "TASK_DOWNLOAD", "TASK_UPLOAD"}
FileOpcodes == {"TASK_DOWNLOAD", "TASK_CMD_JOB_SAVE", "TASK_CMD_WAIT_SAVE"}
Datas      == {"d1", "d2"}
TaskIdModulus == 3   \* 65536 in the source, scaled down
MaxTasks   == 4      \* task rows ever inserted
MaxDelivered == 3    \* tasks ever handed out
MaxPosts   == 1      \* texts ever appended to one results buffer
MaxChunks  == 2      \* chunks ever written to one file

None  == "None"
NoExc == "ok"
EmptyFn == [x \in {} |-> None]
NoOut == [kind |-> "None"]
Idle  == [at |-> "idle"]

----------------------------------------------------------------------------
(* The world a handler runs on, and the value it leaves *)

World == [agents |-> agents, db |-> dbAgents, tasks |-> taskRows,
          results |-> resultRows, dirty |-> dirty, dirs |-> dirs, files |-> files,
          disk |-> diskFull, fd |-> fileDirectory,
          events |-> {}, exc |-> NoExc, out |-> NoOut]

\* dispatcher.send of an event of this kind
Emit(w, e) == [w EXCEPT !.events = w.events \cup {e}]

Raise(w, e) == [w EXCEPT !.exc = e]

Return(w, v) == [w EXCEPT !.out = v]

Restrict(f, S) == [x \in S |-> f[x]]

\* autoflush of the session of thread t: the pending taskings = '' assignments
\* are written to their rows (a row deleted meanwhile is skipped)
Flush(w, t) ==
  [w EXCEPT !.db = [s \in DOMAIN w.db |->
                      IF s \in w.dirty[t] THEN [w.db[s] EXCEPT !.taskings = <<>>]
                      ELSE w.db[s]],
            !.dirty = [w.dirty EXCEPT ![t] = {}]]

\* get_agent_id_db: the session_id of the row named `name`, or None
GetAgentIdDb(w, name) ==
  IF \E s \in DOMAIN w.db : w.db[s].name = name
  THEN CHOOSE s \in DOMAIN w.db : w.db[s].name = name
  ELSE None

\* the "see if we were passed a name instead of an ID" preamble
ResolveId(w, x) == IF GetAgentIdDb(w, x) # None THEN GetAgentIdDb(w, x) ELSE x

\* get_agent_name_db: the name of the row whose session_id or name is x
GetAgentNameDb(w, x) ==
  IF \E s \in DOMAIN w.db : s = x \/ w.db[s].name = x
  THEN w.db[CHOOSE s \in DOMAIN w.db : s = x \/ w.db[s].name = x].name
  ELSE None

\* get_agent_nonce_db: the nonce of the row with this session_id, or None
GetAgentNonceDb(w, s) == IF s \in DOMAIN w.db THEN [some |-> TRUE, nonce |-> w.db[s].nonce] ELSE [some |-> FALSE]

\* SQL LIKE on the wildcard-free patterns and the pattern '%' the code builds
Like(pattern, s) == pattern = "%" \/ pattern = s

\* sessionID == '%' or sessionID.lower() == 'all'
IsAll(x) == x = "%" \/ x \in {"all", "ALL"}

\* the sysinfo columns of a row: <<>> while they are NULL, else <<the record>>
NoSysinfo == <<>>

\* models.Agent(...) as add_agent builds it: name = session_id, language = '';
\* lastseen_time is 0, the time of the call, until a later time is written
NewRow(sid, key, nonce, language) ==
  [name |-> sid, session_key |-> key, nonce |-> nonce, language |-> language,
   sysinfo |-> NoSysinfo, taskings |-> <<>>, results |-> <<>>, lastseen |-> 0]

\* an agents table without keys: the row of the session_id is written anew
AddAgentInsertUnkeyed(w, t, sid, key, nonce, language) ==
  LET w1 == Flush(w, t) IN
  [w1 EXCEPT !.db = (sid :> NewRow(sid, key, nonce, language)) @@ w1.db]

\* add_agent, first half: Session().add(models.Agent(...)); Session().commit()
\* (agents: session_id PRIMARY KEY, name UNIQUE)
AddAgentInsert(w, t, sid, key, nonce, language) ==
  LET w1 == Flush(w, t) IN
  IF sid \in DOMAIN w1.db \/ (\E s \in DOMAIN w1.db : w1.db[s].name = sid)
  THEN Raise(w1, "IntegrityError")
  ELSE [w1 EXCEPT !.db = (sid :> NewRow(sid, key, nonce, language)) @@ w1.db]

\* add_agent, second half: self.agents[sessionID] = {...}
AddAgentCache(w, sid, key) ==
  [w EXCEPT !.agents = (sid :> key) @@ w.agents]

AddAgent(w, t, sid, key, nonce, language) ==
  LET w1 == AddAgentInsert(w, t, sid, key, nonce, language) IN
  IF w1.exc # NoExc THEN w1 ELSE AddAgentCache(w1, sid, key)

\* remove_agent_db: the sessionID the cache pop and the DELETE use
RemoveTarget(w, x) == IF IsAll(x) THEN "%" ELSE ResolveId(w, x)

\* remove_agent_db: self.agents = {} / self.agents.pop(sessionID, None)
RemoveAgentCache(w, x, target) ==
  [w EXCEPT !.agents = IF IsAll(x) THEN EmptyFn
                       ELSE Restrict(w.agents, DOMAIN w.agents \ {target})]

\* remove_agent_db with a DELETE that matches no row
RemoveAgentDeleteNothing(w, target) == w

\* remove_agent_db: DELETE FROM agents WHERE session_id LIKE ?
RemoveAgentDelete(w, target) ==
  [w EXCEPT !.db = Restrict(w.db, {s \in DOMAIN w.db : ~Like(target, s)})]

RemoveAgentDb(w, t, x) ==
  LET w1 == IF IsAll(x) THEN w ELSE Flush(w, t)
      target == RemoveTarget(w1, x)
  IN  RemoveAgentDelete(RemoveAgentCache(w1, x, target), target)

\* save_agent_log: makes downloads/<name>/ and appends to agent.log
SaveAgentLog(w, x) ==
  IF w.disk THEN Raise(w, "OSError")
  ELSE [w EXCEPT !.dirs = w.dirs \cup {GetAgentNameDb(w, x)}]

\* update_agent_sysinfo_db: the row of the resolved session_id gets the fields
UpdateAgentSysinfoDb(w, t, x, info, language) ==
  LET w1 == Flush(w, t)
      sid == ResolveId(w1, x)
  IN  IF sid \notin DOMAIN w1.db THEN Raise(w1, "AttributeError")
      ELSE [w1 EXCEPT !.db[sid].sysinfo = info, !.db[sid].language = language]

\* the ids of the agent's rows in table taskings
TaskIdsOf(w, sid) ==
  {w.tasks[i].id : i \in {j \in 1..Len(w.tasks) : w.tasks[j].agent = sid}}

\* SELECT max(id) FROM taskings WHERE agent = ?  (0 stands for "if pk is None: pk = 0")
MaxTaskId(w, sid) ==
  IF TaskIdsOf(w, sid) = {} THEN 0
  ELSE CHOOSE m \in TaskIdsOf(w, sid) : \A k \in TaskIdsOf(w, sid) : k <= m

\* pk = (pk + 1) % 65536
NextTaskId(w, sid) == (MaxTaskId(w, sid) + 1) % TaskIdModulus

\* add_agent_task_db, the statements under the lock: the task row, the blank
\* result row, and the new entry appended to the taskings read before
AddTaskWrite(w, sid, pk, readTasks, body) ==
  [w EXCEPT !.tasks = Append(w.tasks, [id |-> pk, agent |-> sid]),
            !.results = Append(w.results, [id |-> pk, agent |-> sid, data |-> None]),
            !.db = [s \in DOMAIN w.db |->
                      IF s = sid
                      THEN [w.db[s] EXCEPT !.taskings = Append(readTasks, [body |-> body, id |-> pk])]
                      ELSE w.db[s]],
            !.out = [kind |-> "task_id", id |-> pk]]

\* SELECT taskings FROM agents WHERE session_id = ?
ReadTaskings(w, sid) == IF sid \in DOMAIN w.db THEN w.db[sid].taskings ELSE <<>>

\* add_agent_task_db: body is the (taskName, task) pair of the call
AddAgentTaskDb(w, t, x, body) ==
  LET w1 == Flush(w, t)
      sid == ResolveId(w1, x)
  IN  IF sid \notin DOMAIN w1.agents THEN Return(w1, NoOut)
      ELSE AddTaskWrite(w1, sid, NextTaskId(w1, sid), ReadTaskings(w1, sid), body)

\* get_agent_tasks_db: returns the row's taskings and assigns taskings = ''
\* on the ORM object; Session().commit is named, not called
GetAgentTasksDb(w, t, x) ==
  LET w1 == Flush(w, t)
      sid == ResolveId(w1, x)
  IN  IF sid \notin DOMAIN w1.agents THEN Return(w1, [kind |-> "tasks", tasks |-> <<>>])
      ELSE IF sid \notin DOMAIN w1.db THEN Raise(w1, "AttributeError")
      ELSE IF w1.db[sid].taskings # <<>>
      THEN [w1 EXCEPT !.dirty[t] = w1.dirty[t] \cup {sid}, !.out = [kind |-> "tasks", tasks |-> w1.db[sid].taskings]]
      ELSE Return(w1, [kind |-> "tasks", tasks |-> <<>>])

\* update_agent_lastseen_db: query by session_id or name, assign, commit
UpdateAgentLastseenDb(w, t, x) ==
  LET w1 == Flush(w, t)
  IN  IF GetAgentNameDb(w1, x) = None THEN Raise(w1, "AttributeError")
      ELSE LET s == CHOOSE s \in DOMAIN w1.db : s = x \/ w1.db[s].name = x
           IN  [w1 EXCEPT !.db[s].lastseen = 1]

----------------------------------------------------------------------------
(* handle_agent_staging *)

\* STAGE1: m = [hmac, wellformed]; key and nonce are the values minted
Stage1(w, t, sid, language, m, key, nonce) ==
  IF ~m.hmac THEN Return(w, [kind |-> "text", text |-> <<"ERROR", ": HMAC verification failed">>])
  ELSE IF language = "powershell"
  THEN IF ~m.wellformed
       THEN Return(w, [kind |-> "text", text |-> <<"ERROR", ": Invalid PowerShell key post format">>])
       ELSE LET w1 == AddAgent(w, t, sid, key, nonce, "") IN
            IF w1.exc # NoExc THEN w1
            ELSE Return(w1, [kind |-> "stage1", nonce |-> nonce, key |-> w1.db[sid].session_key])
  ELSE IF language = "python"
  THEN IF ~m.wellformed
       THEN Return(w, [kind |-> "text", text |-> <<"Error", ": Invalid Python key post format">>])
       ELSE LET w1 == AddAgent(w, t, sid, key, nonce, "") IN
            IF w1.exc # NoExc THEN w1
            ELSE Return(w1, [kind |-> "stage1", nonce |-> nonce, key |-> "serverPub"])
  ELSE Return(w, [kind |-> "text", text |-> <<"ERROR", ": invalid language">>])

\* high_integrity = 1 iff the field is "True"
HighIntegrity(field) == IF field = "True" THEN 1 ELSE 0

\* username = domain\user when the domain is not blank
Stage2Username(m) == IF m.domain # "" THEN <<m.domain, "\\", m.user>> ELSE <<m.user>>

Stage2Sysinfo(m) ==
  << [username |-> Stage2Username(m), high_integrity |-> HighIntegrity(m.hi),
      language_version |-> m.version] >>

\* the nonce of the checkin compared to the stored nonce itself
Stage2VerdictReplay(w, sid, m) ==
  IF m.key # w.agents[sid] THEN "exception"
  ELSE IF m.nfields < 12 THEN "format"
  ELSE IF ~m.isint \/ ~GetAgentNonceDb(w, sid).some THEN "exception"
  ELSE IF m.n0 # GetAgentNonceDb(w, sid).nonce THEN "nonce"
  ELSE "ok"

\* the try block of STAGE2: "ok", or the way it ends in a removal
\* m = [key, nfields, isint, n0, domain, user, hi, language, version]
Stage2Verdict(w, sid, m) ==
  IF m.key # w.agents[sid] THEN "exception"
  ELSE IF m.nfields < 12 THEN "format"
  ELSE IF ~m.isint \/ ~GetAgentNonceDb(w, sid).some THEN "exception"
  ELSE IF m.n0 # GetAgentNonceDb(w, sid).nonce + 1 THEN "nonce"
  ELSE "ok"

\* STAGE2 after the nonce is verified: sysinfo, log, autorun
Stage2Activate(w, t, sid, m, auto) ==
  LET w1 == UpdateAgentSysinfoDb(w, t, sid, Stage2Sysinfo(m), m.language) IN
  IF w1.exc # NoExc THEN w1
  ELSE IF GetAgentNameDb(w1, sid) = None THEN Raise(w1, "IndexError")
  ELSE LET w2 == SaveAgentLog(w1, sid)
           w3 == IF auto /\ w2.exc = NoExc THEN AddAgentTaskDb(w2, t, sid, Len(w2.tasks) + 1)
                 ELSE w2
       IN  IF w3.exc # NoExc THEN w3
           ELSE Return(w3, [kind |-> "text", text |-> <<"STAGE2", ": ", sid>>])

Stage2(w, t, sid, m, auto) ==
  IF sid \notin DOMAIN w.agents THEN Raise(w, "KeyError")
  ELSE LET w1 == IF m.key = w.agents[sid] /\ m.nfields >= 12 /\ m.isint
                 THEN Flush(w, t) ELSE w
           v  == Stage2Verdict(w1, sid, m)
       IN  IF v = "ok" THEN Stage2Activate(w1, t, sid, m, auto)
           ELSE Return(RemoveAgentDb(w1, t, sid),
                       [kind |-> "text",
                        text |-> IF v = "exception"
                                 THEN <<"Error", ": Exception in agents.handle_agent_staging() for ", sid>>
                                 ELSE IF v = "format"
                                 THEN <<"ERROR", ": Agent ", sid, " posted invalid sysinfo checkin format">>
                                 ELSE <<"ERROR", ": Invalid nonce returned from ", sid>>])

HandleAgentStaging(w, t, sid, language, meta, m, key, nonce, auto) ==
  IF meta = "STAGE0" THEN Return(w, [kind |-> "text", text |-> <<"STAGE0">>])
  ELSE IF meta = "STAGE1" THEN Stage1(w, t, sid, language, m, key, nonce)
  ELSE IF meta = "STAGE2" THEN Stage2(w, t, sid, m, auto)
  ELSE Return(w, NoOut)

----------------------------------------------------------------------------
(* Paths.  A string is a sequence of tokens; no token is a prefix of another, *)
(* so one string starts with another exactly when its tokens do.             *)

InstallPath == <<"/", "opt", "/">>

RECURSIVE Join(_, _)
\* sep.join(parts)
Join(parts, sep) ==
  IF parts = <<>> THEN <<>>
  ELSE IF Len(parts) = 1 THEN parts[1]
  ELSE parts[1] \o sep \o Join(Tail(parts), sep)

RECURSIVE SplitFrom(_, _, _)
\* str.split(sep), with cur the piece collected so far
SplitFrom(str, sep, cur) ==
  IF str = <<>> THEN <<cur>>
  ELSE IF Head(str) = sep THEN <<cur>> \o SplitFrom(Tail(str), sep, <<>>)
  ELSE SplitFrom(Tail(str), sep, Append(cur, Head(str)))

Split(str, sep) == SplitFrom(str, sep, <<>>)

\* os.path.basename: what follows the last "/"
Basename(str) == Split(str, "/")[Len(Split(str, "/"))]

RECURSIVE NormFrom(_, _)
\* os.path.normpath of an absolute path, on its components: "" and "." are
\* dropped, ".." removes the component before it (none at the root)
NormFrom(comps, acc) ==
  IF comps = <<>> THEN acc
  ELSE IF Head(comps) = <<>> \/ Head(comps) = <<".">> THEN NormFrom(Tail(comps), acc)
  ELSE IF Head(comps) = <<"..">>
  THEN NormFrom(Tail(comps), IF acc = <<>> THEN acc ELSE SubSeq(acc, 1, Len(acc) - 1))
  ELSE NormFrom(Tail(comps), Append(acc, Head(comps)))

\* the components of os.path.abspath(str), str absolute
AbsComps(str) == NormFrom(Split(str, "/"), <<>>)

\* os.path.abspath(str), str absolute
Abspath(str) == <<"/">> \o Join(AbsComps(str), <<"/">>)

\* str.startswith(prefix)
StartsWith(str, prefix) ==
  Len(prefix) <= Len(str) /\ SubSeq(str, 1, Len(prefix)) = prefix

\* save_file: save_path = "%sdownloads/%s/%s" % (installPath, sessionID, "/".join(parts[0:-1]))
SavePath(sid, parts) ==
  InstallPath \o <<"downloads", "/", sid, "/">> \o Join(SubSeq(parts, 1, Len(parts) - 1), <<"/">>)

\* save_file: safePath = os.path.abspath("%sdownloads/" % installPath)
SafePath == Abspath(InstallPath \o <<"downloads", "/">>)

\* save_file: the skywalker check lets the write happen
SkywalkerOk(sid, parts) ==
  StartsWith(Abspath(SavePath(sid, parts) \o <<"/">> \o Basename(parts[Len(parts)])), SafePath)

\* the file open("%s/%s" % (save_path, filename)) names
TargetFile(sid, parts) ==
  Abspath(SavePath(sid, parts) \o <<"/">> \o Basename(parts[Len(parts)]))

\* the bytes written: a python agent's chunk is decompressed first
ChunkWritten(w, sid, data) ==
  IF sid \in DOMAIN w.db /\ w.db[sid].language = "python" THEN [dec |-> data] ELSE [raw |-> data]

\* save_file(sessionID, path, data, filesize, append); path is given split on "\\",
\* total is int(filesize)
SaveFile(w, t, x, parts, data, total, append) ==
  LET w1  == Flush(w, t)
      sid == ResolveId(w1, x)
      f   == TargetFile(sid, parts)
      old == IF append /\ f \in DOMAIN w1.files THEN w1.files[f] ELSE <<>>
  IN  IF ~SkywalkerOk(sid, parts) THEN Emit(w1, "skywalker")
      ELSE IF w1.disk THEN Raise(w1, "OSError")
      ELSE IF Basename(parts[Len(parts)]) \in {<<>>, <<"..">>} THEN Raise(w1, "IsADirectoryError")
      ELSE LET w2 == [w1 EXCEPT !.files = (f :> Append(old, ChunkWritten(w1, sid, data))) @@ w1.files]
           IN  IF total = 0 THEN Raise(w2, "ZeroDivisionError") ELSE Emit(w2, "saved")

----------------------------------------------------------------------------
(* rename_agent *)

\* the names an operator types; "n-1" stands for the names str.isalnum() rejects
Names == SessionIds \cup {"n1", "n-1"}

\* new_name.isalnum()
IsAlnum(name) == name \notin {"n-1", ""}

\* "%s/downloads/%s/" % (self.installPath, name), without the last "/"
DownloadDir(name) == Abspath(InstallPath \o <<"downloads", "/", name>>)

\* the file f lies in the directory dir or below it
Below(f, dir) == StartsWith(f, dir \o <<"/">>)

\* os.path.exists of the download directory of that name
DirExists(w, name) ==
  name \in w.dirs \/ \E f \in DOMAIN w.files : Below(f, DownloadDir(name))

\* where os.rename(old_path, new_path) puts the file f
Moved(f, old, new) ==
  IF Below(f, DownloadDir(old))
  THEN DownloadDir(new) \o SubSeq(f, Len(DownloadDir(old)) + 1, Len(f))
  ELSE f

\* os.rename(old_path, new_path): agent.log and the files below move along
RenameDir(w, old, new) ==
  [w EXCEPT !.dirs  = IF old \in w.dirs THEN (w.dirs \ {old}) \cup {new} ELSE w.dirs,
            !.files = [g \in { Moved(f, old, new) : f \in DOMAIN w.files } |->
                         w.files[CHOOSE f \in DOMAIN w.files : Moved(f, old, new) = g]]]

Bool(b) == [kind |-> "bool", value |-> b]

\* rename_agent(old_name, new_name)
\* (agents: name UNIQUE, so the commit of a name another row has fails)
RenameAgent(w, t, old, new) ==
  IF ~IsAlnum(new) THEN Return(w, Bool(FALSE))
  ELSE IF DirExists(w, new)
  THEN LET w1 == SaveAgentLog(Flush(w, t), old) IN
       IF w1.exc # NoExc THEN w1 ELSE Return(w1, Bool(FALSE))
  ELSE LET w1  == IF DirExists(w, old) THEN RenameDir(w, old, new) ELSE w
           w2  == Flush(w1, t)
           sid == GetAgentIdDb(w2, old)
       IN  IF sid = None THEN Raise(w2, "AttributeError")
           ELSE IF \E s \in DOMAIN w2.db : s # sid /\ w2.db[s].name = new
           THEN Raise(w2, "IntegrityError")
           ELSE LET w3 == SaveAgentLog([w2 EXCEPT !.db[sid].name = new], old) IN
                IF w3.exc # NoExc THEN w3 ELSE Return(w3, Bool(TRUE))

----------------------------------------------------------------------------
(* update_dir_list *)
(* A row of file_directory is [id, sid, name, path, parent, is_file].  The   *)
(* id of a new row is the largest id of the table plus one.  parent is an   *)
(* id, or the text 'None' the code formats into the INSERT of a directory.  *)
(* With foreign keys enforced a DELETE cascades to the rows below, and an   *)
(* INSERT whose parent is no id of the table fails.                         *)

MaxRowId == 5   \* ids of file_directory handed out

\* stands for the text 'None' in column parent_id: no id equals it
NoParent == 0

Ids(rows) == {r.id : r \in rows}

MaxIdOf(rows) ==
  IF rows = {} THEN 0 ELSE CHOOSE m \in Ids(rows) : \A k \in Ids(rows) : k <= m

RECURSIVE Cascade(_, _)
\* the rows a DELETE of the rows gone removes with them, ON DELETE CASCADE
Cascade(rows, gone) ==
  LET below == {r \in rows \ gone : r.parent \in Ids(gone)}
  IN  IF below = {} THEN gone ELSE Cascade(rows, gone \cup below)

\* DELETE FROM file_directory WHERE ...: gone are the rows the WHERE matches
DeleteRows(fd, gone) ==
  [fd EXCEPT !.rows = fd.rows \ (IF fd.fk THEN Cascade(fd.rows, gone) ELSE gone)]

\* the rows one INSERT statement adds for the items, with ids in item order
ItemRows(rows, sid, items, parent) ==
  { [id |-> MaxIdOf(rows) + i, sid |-> sid, name |-> items[i].name, path |-> items[i].path,
     parent |-> parent, is_file |-> items[i].is_file] : i \in 1..Len(items) }

\* the foreign key of the new rows holds once the statement is done
ParentsExist(rows, new) == \A r \in new : r.parent \in Ids(rows \cup new)

\* SELECT * FROM file_directory WHERE session_id = ? AND path = ?  .fetchone()
DirRows(rows, sid, path) == {r \in rows : r.sid = sid /\ r.path = path}

FetchOne(found) == CHOOSE r \in found : \A q \in found : r.id <= q.id

\* update_dir_list from the items on: thisId is this_directory['id']
UpdateDirItems(w, sid, resp, fd, thisId) ==
  IF Len(resp.items) = 0 THEN [w EXCEPT !.fd = fd]
  ELSE LET paths == {resp.items[i].path : i \in 1..Len(resp.items)}
           fd1   == DeleteRows(fd, {r \in fd.rows : r.sid = sid /\ r.path \in paths})
           new   == ItemRows(fd1.rows, sid, resp.items, thisId)
       IN  IF fd1.fk /\ ~ParentsExist(fd1.rows, new)
           THEN Raise([w EXCEPT !.fd = fd1], "IntegrityError")
           ELSE [w EXCEPT !.fd = [fd1 EXCEPT !.rows = fd1.rows \cup new]]

\* update_dir_list(session_id, response); resp = [name, path, items]
UpdateDirList(w, t, x, resp) ==
  LET w1  == Flush(w, t)
      sid == ResolveId(w1, x)
      fd  == w1.fd
      found == DirRows(fd.rows, sid, resp.path)
  IN  IF sid \notin DOMAIN w1.agents THEN w1
      ELSE IF found # {}
      THEN UpdateDirItems(w1, sid, resp,
                          DeleteRows(fd, {r \in fd.rows : r.sid = sid /\ r.parent = FetchOne(found).id}),
                          FetchOne(found).id)
      ELSE IF fd.fk THEN Raise(w1, "IntegrityError")
      ELSE LET dir == [id |-> MaxIdOf(fd.rows) + 1, sid |-> sid, name |-> resp.name,
                       path |-> resp.path, parent |-> NoParent, is_file |-> FALSE]
           IN  UpdateDirItems(w1, sid, resp, [fd EXCEPT !.rows = fd.rows \cup {dir}], dir.id)

----------------------------------------------------------------------------
(* Requests and responses *)

\* json.dumps of a string, as one piece of a string
Dumps(str) == << [json |-> str] >>

\* update_agent_results_db: agent.results = json.dumps(agent.results + '\n' + results)
UpdateAgentResultsDb(w, t, x, data) ==
  LET w1  == Flush(w, t)
      sid == ResolveId(w1, x)
  IN  IF sid \notin DOMAIN w1.agents THEN Emit(w1, "nonexistent")
      ELSE IF sid \notin DOMAIN w1.db THEN Raise(w1, "AttributeError")
      ELSE [w1 EXCEPT !.db[sid].results =
                         Dumps(w1.db[sid].results \o << [nl |-> TRUE], [text |-> data] >>)]

\* json.loads of what Dumps made
Loads(buf) == buf[1].json

\* get_agent_results_db: the buffer is returned decoded once and emptied
GetAgentResultsDb(w, t, x) ==
  LET w1  == Flush(w, t)
      sid == ResolveId(w1, x)
  IN  IF sid \notin DOMAIN w1.agents THEN Return(Emit(w1, "not active"), NoOut)
      ELSE IF sid \notin DOMAIN w1.db THEN Raise(w1, "AttributeError")
      ELSE LET results == w1.db[sid].results
               w2      == [w1 EXCEPT !.db[sid].results = <<>>]
           IN  IF results # <<>>
               THEN Return(w2, [kind |-> "text", text |-> Loads(results)])
               ELSE Return(w2, [kind |-> "text", text |-> <<>>])

\* the UPDATE without the test of the opcode
StoreResultAnyOpcode(w, sid, pkt) ==
  IF pkt.taskID # 0
  THEN [w EXCEPT !.results = [i \in 1..Len(w.results) |->
                                IF w.results[i].id = pkt.taskID /\ w.results[i].agent = sid
                                THEN [w.results[i] EXCEPT !.data = pkt.data]
                                ELSE w.results[i]]]
  ELSE w

\* the UPDATE without its "AND agent=?"
StoreResultAnyAgent(w, sid, pkt) ==
  IF pkt.taskID # 0 /\ pkt.opcode \notin FileOpcodes
  THEN [w EXCEPT !.results = [i \in 1..Len(w.results) |->
                                IF w.results[i].id = pkt.taskID
                                THEN [w.results[i] EXCEPT !.data = pkt.data]
                                ELSE w.results[i]]]
  ELSE w

\* process_agent_packet, under the lock:
\* UPDATE results SET data=? WHERE id=? AND agent=?
StoreResult(w, sid, pkt) ==
  IF pkt.taskID # 0 /\ pkt.opcode \notin FileOpcodes
  THEN [w EXCEPT !.results = [i \in 1..Len(w.results) |->
                                IF w.results[i].id = pkt.taskID /\ w.results[i].agent = sid
                                THEN [w.results[i] EXCEPT !.data = pkt.data]
                                ELSE w.results[i]]]
  ELSE w

\* a TASK_DOWNLOAD branch that opens the file for appending whatever the index
TaskDownloadAppending(w, t, sid, pkt) ==
  IF pkt.dl.nparts # 4 THEN Emit(w, "invalid download")
  ELSE LET name == GetAgentNameDb(Flush(w, t), sid)
           w1   == SaveFile(w, t, name, pkt.dl.path, pkt.data, pkt.dl.total, TRUE)
       IN  IF w1.exc # NoExc THEN w1 ELSE SaveAgentLog(w1, sid)

\* process_agent_packet: the TASK_DOWNLOAD branch; pkt.dl = [nparts, index, path, total]
TaskDownload(w, t, sid, pkt) ==
  IF pkt.dl.nparts # 4 THEN Emit(w, "invalid download")
  ELSE LET name == GetAgentNameDb(Flush(w, t), sid)
           w1   == SaveFile(w, t, name, pkt.dl.path, pkt.data, pkt.dl.total, pkt.dl.index # 0)
       IN  IF w1.exc # NoExc THEN w1 ELSE SaveAgentLog(w1, sid)

\* process_agent_packet: the TASK_EXIT branch
TaskExit(w, t, sid) ==
  LET w1 == SaveAgentLog(Flush(w, t), sid) IN
  IF w1.exc # NoExc THEN w1 ELSE RemoveAgentDb(w1, t, sid)

\* process_agent_packet: the branches that append the text to the results buffer
TaskText(w, t, sid, pkt) ==
  LET w1 == UpdateAgentResultsDb(w, t, sid, pkt.data) IN
  IF w1.exc # NoExc THEN w1 ELSE SaveAgentLog(w1, sid)

\* save_module_file: save_path = "%s/downloads/%s/%s" % (installPath, name, prefix),
\* the file in it is named by the host and the time
ModuleFile(name, prefix) ==
  Abspath(InstallPath \o <<"/", "downloads", "/", name, "/">> \o prefix \o <<"/", "out">>)

\* save_module_file(sessionID, path, data): the file is opened with 'wb'
SaveModuleFile(w, t, x, prefix, data) ==
  LET w1   == Flush(w, t)
      name == GetAgentNameDb(w1, x)
      f    == ModuleFile(name, prefix)
  IN  IF ~StartsWith(f, Abspath(InstallPath \o <<"/", "downloads", "/">>)) THEN Emit(w1, "skywalker")
      ELSE IF w1.disk THEN Raise(w1, "OSError")
      ELSE Emit([w1 EXCEPT !.files = (f :> <<ChunkWritten(w1, ResolveId(w1, name), data)>>) @@ w1.files],
                "module saved")

\* process_agent_packet: the TASK_CMD_WAIT_SAVE and TASK_CMD_JOB_SAVE branches;
\* pkt.dl.path is the prefix the data starts with
TaskSave(w, t, sid, pkt) ==
  LET name == GetAgentNameDb(Flush(w, t), sid)
      w1   == SaveModuleFile(w, t, name, pkt.dl.path, pkt.data)
  IN  IF w1.exc # NoExc THEN w1
      ELSE LET w2 == UpdateAgentResultsDb(w1, t, sid, "Output saved") IN
           IF w2.exc # NoExc THEN w2 ELSE SaveAgentLog(w2, sid)

\* process_agent_packet, TASK_SYSINFO: username = "%s\\%s" % (domainname, username)
SysinfoUsername(m) == <<m.domain, "\\", m.user>>

\* process_agent_packet: the TASK_SYSINFO branch; pkt.dl holds the data split
\* on "|": [nfields, domain, user, hi, language, version]
TaskSysinfo(w, t, sid, pkt) ==
  IF pkt.dl.nfields < 12 THEN Emit(w, "invalid sysinfo")
  ELSE LET info == << [username |-> SysinfoUsername(pkt.dl),
                       high_integrity |-> HighIntegrity(pkt.dl.hi),
                       language_version |-> pkt.dl.version] >>
           w1   == UpdateAgentSysinfoDb(w, t, sid, info, pkt.dl.language)
       IN  IF w1.exc # NoExc THEN w1
           ELSE LET w2 == UpdateAgentResultsDb(w1, t, sid, "sysinfo") IN
                IF w2.exc # NoExc THEN w2 ELSE SaveAgentLog(w2, sid)

\* process_agent_packet(sessionID, responseName, taskID, data)
ProcessAgentPacket(w, t, x, pkt) ==
  LET w1  == Flush(w, t)
      sid == ResolveId(w1, x)
      w2  == StoreResult(w1, sid, pkt)
  IN  IF pkt.opcode = "TASK_EXIT" THEN TaskExit(w2, t, sid)
      ELSE IF pkt.opcode = "TASK_SYSINFO" THEN TaskSysinfo(w2, t, sid, pkt)
      ELSE IF pkt.opcode = "TASK_SHELL" THEN TaskText(w2, t, sid, pkt)
      ELSE IF pkt.opcode = "TASK_DOWNLOAD" THEN TaskDownload(w2, t, sid, pkt)
      ELSE IF pkt.opcode \in {"TASK_CMD_WAIT_SAVE", "TASK_CMD_JOB_SAVE"} THEN TaskSave(w2, t, sid, pkt)
      ELSE w2

RECURSIVE ProcessPackets(_, _, _, _)
\* handle_agent_response: the loop over the result packets of one body
ProcessPackets(w, t, sid, pkts) ==
  IF pkts = <<>> \/ w.exc # NoExc THEN w
  ELSE ProcessPackets(ProcessAgentPacket(w, t, sid, Head(pkts)), t, sid, Tail(pkts))

\* handle_agent_response(sessionID, encData, update_lastseen); m = [key, wellformed, packets]
HandleAgentResponse(w, t, sid, m, updateLastseen) ==
  IF sid \notin DOMAIN w.agents THEN Return(w, NoOut)
  ELSE LET w1 == IF updateLastseen THEN UpdateAgentLastseenDb(w, t, sid) ELSE w IN
       IF w1.exc # NoExc THEN w1
       ELSE IF m.key # w1.agents[sid] \/ ~m.wellformed THEN Return(w1, NoOut)
       ELSE LET w2 == ProcessPackets(w1, t, sid, m.packets) IN
            IF w2.exc # NoExc THEN Return([w2 EXCEPT !.exc = NoExc], NoOut)
            ELSE Return(w2, [kind |-> "text", text |-> <<"VALID">>])

\* handle_agent_request(sessionID, language, stagingKey)
HandleAgentRequest(w, t, sid) ==
  IF sid \notin DOMAIN w.agents THEN Return(w, NoOut)
  ELSE LET w1 == UpdateAgentLastseenDb(w, t, sid) IN
       IF w1.exc # NoExc THEN w1
       ELSE LET w2 == GetAgentTasksDb(w1, t, sid) IN
            IF w2.exc # NoExc THEN w2
            ELSE IF w2.out.tasks = <<>> THEN Return(w2, NoOut)
            ELSE Return(w2, [kind |-> "SERVER_RESPONSE", tasks |-> w2.out.tasks,
                             key |-> w2.agents[sid]])

StagingMetas == {"STAGE0", "STAGE1", "STAGE2"}

\* handle_agent_data touching last_seen before it consults the cache
HandleAgentDataLastseenFirst(w, t, f, auto, updateLastseen) ==
  IF f.meta \in StagingMetas
  THEN HandleAgentStaging(w, t, f.sid, f.language, f.meta, f.m, f.key, f.nonce, auto)
  ELSE LET w1 == UpdateAgentLastseenDb(w, t, f.sid) IN
       IF w1.exc # NoExc THEN w1
       ELSE IF f.meta = "TASKING_REQUEST" THEN HandleAgentRequest(w1, t, f.sid)
       ELSE IF f.meta = "RESULT_POST" THEN HandleAgentResponse(w1, t, f.sid, f.m, updateLastseen)
       ELSE Return(w1, NoOut)

\* handle_agent_data on a routing packet of one frame
\* f = [sid, language, meta, m, key, nonce]
HandleAgentData(w, t, f, auto, updateLastseen) ==
  IF f.meta \in StagingMetas
  THEN HandleAgentStaging(w, t, f.sid, f.language, f.meta, f.m, f.key, f.nonce, auto)
  ELSE IF f.sid \notin DOMAIN w.agents
  THEN Return(w, [kind |-> "text", text |-> <<"ERROR", ": sessionID not in cache">>])
  ELSE IF f.meta = "TASKING_REQUEST" THEN HandleAgentRequest(w, t, f.sid)
  ELSE IF f.meta = "RESULT_POST" THEN HandleAgentResponse(w, t, f.sid, f.m, updateLastseen)
  ELSE Return(w, NoOut)

----------------------------------------------------------------------------
(* The state after construction, and one action per public operation *)

Init ==
  /\ agents = EmptyFn
  /\ dbAgents = EmptyFn
  /\ taskRows = <<>>
  /\ resultRows = <<>>
  /\ dirty = [t \in Threads |-> {}]
  /\ dirs = {}
  /\ files = EmptyFn
  /\ autorun = FALSE
  /\ diskFull = FALSE
  /\ fileDirectory = [rows |-> {}, fk |-> FALSE]
  /\ delivered = <<>>
  /\ last = [op |-> "init", sid |-> None, out |-> NoOut, exc |-> NoExc, events |-> {}]
  /\ pc = [t \in Threads |-> Idle]
  /\ lock = None

\* the store and the files a step leaves
Write(w) ==
  /\ agents' = w.agents
  /\ dbAgents' = w.db
  /\ taskRows' = w.tasks
  /\ resultRows' = w.results
  /\ dirty' = w.dirty
  /\ dirs' = w.dirs
  /\ files' = w.files
  /\ fileDirectory' = w.fd

\* the outcome of a call that has finished
Finish(w, op, sid) ==
  /\ delivered' = IF w.exc = NoExc /\ w.out.kind = "SERVER_RESPONSE"
                   THEN delivered \o w.out.tasks ELSE delivered
  /\ last' = [op |-> op, sid |-> sid, out |-> w.out, exc |-> w.exc, events |-> w.events]

\* the state a call leaves that ran from its start to its end in one step
Apply(w, op, sid) ==
  /\ Write(w)
  /\ Finish(w, op, sid)
  /\ UNCHANGED <<autorun, diskFull, pc, lock>>

Frame(sid, language, meta, m, key, nonce) ==
  [sid |-> sid, language |-> language, meta |-> meta, m |-> m, key |-> key, nonce |-> nonce]

NoMsg == [none |-> TRUE]

\* Agents.__init__ after a process stop: the cache is rebuilt from the rows,
\* and what the sessions of the old threads had not flushed is gone
Restart ==
  /\ \A t \in Threads : pc[t] = Idle
  /\ agents' = [s \in DOMAIN dbAgents |-> dbAgents[s].session_key]
  /\ dirty' = [t \in Threads |-> {}]
  /\ last' = [op |-> "restart", sid |-> None, out |-> NoOut, exc |-> NoExc, events |-> {}]
  /\ UNCHANGED <<dbAgents, taskRows, resultRows, dirs, files, autorun, diskFull, fileDirectory,
                 delivered, pc, lock>>

Stage0Frame(t, sid) ==
  Apply(HandleAgentData(World, t, Frame(sid, "python", "STAGE0", NoMsg, None, 0), autorun, TRUE),
        "STAGE0", sid)

Stage1Msgs == [hmac : BOOLEAN, wellformed : BOOLEAN]

Stage1Frame(t, sid, language, m, key, nonce) ==
  Apply(HandleAgentData(World, t, Frame(sid, language, "STAGE1", m, key, nonce), autorun, TRUE),
        "STAGE1", sid)

\* the STAGE2 plaintexts tried: the first field ranges over the nonces, their
\* successors and a non-number; the sysinfo fields vary in the well-formed ones
Stage2Msgs ==
  { m \in [key : Keys, nfields : {11, 12, 13}, isint : BOOLEAN,
           n0 : Nonces \cup {n + 1 : n \in Nonces},
           domain : Domains, user : {"u"}, hi : {"True"},
           language : {"python"}, version : {"v"}] :
      /\ (m.nfields # 12 \/ ~m.isint) => m.domain = ""
      /\ ~m.isint => m.n0 = 3 }

Stage2Frame(t, sid, m) ==
  /\ autorun => Len(taskRows) < MaxTasks
  /\ Apply(HandleAgentData(World, t, Frame(sid, "python", "STAGE2", m, None, 0), autorun, TRUE),
           "STAGE2", sid)

RequestFrame(t, sid) ==
  /\ Len(delivered) < MaxDelivered
  /\ Apply(HandleAgentData(World, t, Frame(sid, "python", "TASKING_REQUEST", NoMsg, None, 0),
                           autorun, TRUE),
           "TASKING_REQUEST", sid)

\* a result packet; dl carries the fields of a TASK_DOWNLOAD
Packet(opcode, taskID, data, dl) == [opcode |-> opcode, taskID |-> taskID, data |-> data, dl |-> dl]

NoDl == [nparts |-> 0, index |-> 0, path |-> <<>>, total |-> 1]

RECURSIVE BufDepth(_)
\* how many texts a results buffer holds
BufDepth(buf) ==
  IF buf = <<>> THEN 0 ELSE 1 + BufDepth(SubSeq(buf[1].json, 1, Len(buf[1].json) - 2))

ResultFrame(t, sid, m) ==
  /\ \A s \in DOMAIN dbAgents : BufDepth(dbAgents[s].results) < MaxPosts
  /\ Apply(HandleAgentData(World, t, Frame(sid, "python", "RESULT_POST", m, None, 0), autorun, TRUE),
           "RESULT_POST", sid)

\* remove_agent_db(x), by the operator
RemoveAgent(t, x) == Apply(RemoveAgentDb(World, t, x), "remove", x)

\* add_agent_task_db(x, ...), by the operator; the body is numbered by the
\* rows of table taskings, which are never deleted
Enqueue(t, x) ==
  /\ Len(taskRows) < MaxTasks
  /\ Apply(AddAgentTaskDb(World, t, x, Len(taskRows) + 1), "enqueue", x)

\* rename_agent(old, new), by the operator
Rename(t, old, new) == Apply(RenameAgent(World, t, old, new), "rename", old)

----------------------------------------------------------------------------
(* Specifications *)

RemoveArgs == SessionIds \cup {"%", "all"}

ExitMsgs ==
  { [key |-> k, wellformed |-> wf, packets |-> <<Packet("TASK_EXIT", 0, "d1", NoDl)>>] :
      k \in Keys, wf \in BOOLEAN }

\* the thread of the calls where the session of the caller does not matter
MainThread == "t1"

\* staging and the agent store, one call at a time
Next ==
  \/ Restart
  \/ \E sid \in SessionIds : Stage0Frame(MainThread, sid)
  \/ \E sid \in SessionIds, l \in Languages, m \in Stage1Msgs, n \in Nonces :
        Stage1Frame(MainThread, sid, l, m, "k1", n)
  \/ \E sid \in SessionIds, m \in Stage2Msgs : Stage2Frame(MainThread, sid, m)
  \/ \E sid \in SessionIds, m \in ExitMsgs : ResultFrame(MainThread, sid, m)
  \/ \E x \in RemoveArgs : RemoveAgent(MainThread, x)

Spec == Init /\ [][Next]_vars

\* the rows of table agents without their lastseen_time
Rows(db) == [s \in DOMAIN db |-> [db[s] EXCEPT !.lastseen = 0]]

\* a staging call ended in failure: it raised, or it answered an error text
StagingFailed(l) ==
  \/ l.exc # NoExc
  \/ l.out.kind = "text" /\ Head(l.out.text) \in {"ERROR", "Error"}

\* the agent passed STAGE2: its row carries the sysinfo of the checkin
Activated(sid) ==
  /\ sid \in DOMAIN agents
  /\ sid \in DOMAIN dbAgents
  /\ dbAgents[sid].sysinfo # NoSysinfo

\* C15: no inbound STAGE0, STAGE1 or STAGE2 frame naming the session_id of an
\* activated agent, well-formed or not, removes the agent from the cache or
\* from table agents
C15_StagingKeepsActivated ==
  [][\A sid \in SessionIds :
       (Activated(sid) /\ last'.op \in {"STAGE0", "STAGE1", "STAGE2"} /\ last'.sid = sid)
       => (sid \in DOMAIN agents' /\ sid \in DOMAIN dbAgents')]_vars

\* C16: a STAGE2 plaintext sealed with the session key whose field count is
\* not 12, fewer or more, is rejected: the agent is removed from the cache and
\* from table agents, an error text is returned, no sysinfo is persisted
C16_FieldCountRejected ==
  [][\A sid \in SessionIds, m \in Stage2Msgs :
       ( /\ last'.op = "STAGE2"
         /\ last'.sid = sid
         /\ sid \in DOMAIN agents
         /\ m.key = agents[sid]
         /\ m.nfields # 12
         /\ Stage2Frame(MainThread, sid, m) )
       => ( /\ sid \notin DOMAIN agents'
            /\ sid \notin DOMAIN dbAgents'
            /\ StagingFailed(last') )]_vars

\* the filesystem starts or stops refusing writes
DiskFault ==
  /\ diskFull' = ~diskFull
  /\ UNCHANGED <<agents, dbAgents, taskRows, resultRows, dirty, dirs, files, autorun,
                 fileDirectory, delivered, last, pc, lock>>

\* staging and the agent store on a filesystem that can fail
NextFault ==
  \/ Next
  \/ DiskFault

SpecFault == Init /\ [][NextFault]_vars

\* C14: whenever the handling of a STAGE1 or STAGE2 frame ends in failure,
\* the session_id of the frame is in neither the cache nor table agents
\* (for STAGE1, of a session_id that was in neither before the frame)
C14_FailedStagingLeavesNothing ==
  [][\A sid \in SessionIds :
       ( /\ last'.op \in {"STAGE1", "STAGE2"}
         /\ last'.sid = sid
         /\ StagingFailed(last')
         /\ last'.op = "STAGE1" => (sid \notin DOMAIN agents /\ sid \notin DOMAIN dbAgents) )
       => (sid \notin DOMAIN agents' /\ sid \notin DOMAIN dbAgents')]_vars

----------------------------------------------------------------------------
(* Staging *)

\* a STAGE2 plaintext the agent can have sent: sealed with the key of its
\* session, the sysinfo checkin of 12 fields, the first an integer
Stage2Checkin(sid, m) ==
  /\ sid \in DOMAIN agents /\ sid \in DOMAIN dbAgents
  /\ m.key = agents[sid] /\ m.nfields = 12 /\ m.isint

\* C2: for an agent STAGE1 created with stored nonce n, a STAGE2 checkin whose
\* first field is n + 1 leaves the agent in the table and the store, persists
\* its sysinfo and returns "STAGE2: " + session_id; a checkin whose first field
\* is any other integer removes the agent from the table and from the store
\* and returns a string that starts with ERROR.
C2_Stage2Nonce ==
  [][\A sid \in SessionIds, m \in Stage2Msgs :
       (/\ last'.op = "STAGE2" /\ last'.sid = sid
        /\ Stage2Checkin(sid, m)
        /\ Stage2Frame(MainThread, sid, m))
       => IF m.n0 = dbAgents[sid].nonce + 1
          THEN /\ sid \in DOMAIN agents' /\ sid \in DOMAIN dbAgents'
               /\ dbAgents'[sid].sysinfo = Stage2Sysinfo(m)
               /\ last'.exc = NoExc
               /\ last'.out = [kind |-> "text", text |-> <<"STAGE2", ": ", sid>>]
          ELSE /\ sid \notin DOMAIN agents' /\ sid \notin DOMAIN dbAgents'
               /\ last'.exc = NoExc
               /\ last'.out.kind = "text"
               /\ StartsWith(last'.out.text, <<"ERROR">>)]_vars

\* one agent is active after its checkin, and the other has just been removed
\* by a checkin with a wrong nonce
C2_Witness ==
  /\ last.op = "STAGE2" /\ last.out = [kind |-> "text", text |-> <<"ERROR", ": Invalid nonce returned from ", last.sid>>]
  /\ last.sid \notin DOMAIN agents /\ last.sid \notin DOMAIN dbAgents
  /\ \E s \in DOMAIN agents : s \in DOMAIN dbAgents /\ dbAgents[s].sysinfo # NoSysinfo

\* C13: after a successful STAGE1 of either variant for a new session_id, the
\* agent row of that session_id exists, its language is the language of the
\* variant used and its nonce is the nonce sent in the STAGE1 reply.
C13_Stage1Row ==
  [][\A sid \in SessionIds, l \in Languages, m \in Stage1Msgs, n \in Nonces :
       (/\ last'.op = "STAGE1" /\ last'.sid = sid /\ last'.exc = NoExc
        /\ last'.out.kind = "stage1"
        /\ sid \notin DOMAIN dbAgents
        /\ Stage1Frame(MainThread, sid, l, m, "k1", n))
       => /\ sid \in DOMAIN dbAgents'
          /\ dbAgents'[sid].nonce = last'.out.nonce
          /\ dbAgents'[sid].language = l]_vars

----------------------------------------------------------------------------
(* Tasks and results: one call at a time, the listener and the operator on *)
(* threads of their own                                                     *)

\* result posts of one packet, sealed with the key every agent here has
TaskMsgs ==
  { [key |-> "k1", wellformed |-> TRUE, packets |-> <<Packet(op, id, "d1", NoDl)>>] :
      op \in {"TASK_SHELL", "TASK_UPLOAD"}, id \in 0..(TaskIdModulus - 1) }

\* the thread of the operator's console
OperatorThread == "t2"

\* the agent whose queue is exercised
QueueAgents == {"s1"}

NextTask ==
  \/ \E sid \in QueueAgents :
        Stage1Frame(MainThread, sid, "python", [hmac |-> TRUE, wellformed |-> TRUE], "k1", 3)
  \/ \E sid \in QueueAgents : Enqueue(OperatorThread, sid)
  \/ \E t \in Threads, sid \in QueueAgents : RequestFrame(t, sid)
  \/ Restart

SpecTask == Init /\ [][NextTask]_vars

NextResult ==
  \/ \E sid \in SessionIds :
        Stage1Frame(MainThread, sid, "python", [hmac |-> TRUE, wellformed |-> TRUE], "k1", 3)
  \/ \E sid \in SessionIds : Enqueue(OperatorThread, sid)
  \/ \E sid \in SessionIds, m \in TaskMsgs : ResultFrame(MainThread, sid, m)

SpecResult == Init /\ [][NextResult]_vars

\* the tasks waiting in the taskings column of the agent's row
Pending(a) == IF a \in DOMAIN dbAgents THEN dbAgents[a].taskings ELSE <<>>

\* task k (the k-th row of table taskings) has been handed to its agent
Delivered(k) == \E i \in 1..Len(delivered) : delivered[i].body = k

\* the ids add_agent_task_db returned for the agent, in the order of the calls
IdsOf(a) ==
  LET rows == SelectSeq(taskRows, LAMBDA r : r.agent = a)
  IN  [i \in 1..Len(rows) |-> rows[i].id]

\* C6: with one call at a time, the drain returns the pending tasks in the
\* order they were enqueued and clears them for good: no task is handed out a
\* second time by a later drain, and a task enqueued after a drain is still
\* waiting or has been handed out, whatever store writes happened in between.
C6_DrainClears ==
  /\ \A i, j \in 1..Len(delivered) : i < j => delivered[i].body < delivered[j].body
  /\ \A k \in 1..Len(taskRows) :
        Delivered(k) \/ \E i \in 1..Len(Pending(taskRows[k].agent)) :
                          Pending(taskRows[k].agent)[i].body = k

\* the tasks of the agent that no drain has returned yet, in enqueue order,
\* as entries of a taskings list
Undrained(a) ==
  LET all == [k \in 1..Len(taskRows) |->
                [body |-> k, id |-> taskRows[k].id, agent |-> taskRows[k].agent]]
      sel == SelectSeq(all, LAMBDA r : r.agent = a /\ ~Delivered(r.body))
  IN  [i \in 1..Len(sel) |-> [body |-> sel[i].body, id |-> sel[i].id]]

\* the tasks the request that just finished handed to the agent
Handed(l) == IF l.out.kind = "SERVER_RESPONSE" THEN l.out.tasks ELSE <<>>

\* C12: the first drain for an agent after the table was rebuilt at startup
\* returns, in enqueue order, the tasks that were enqueued and not drained
\* before the stop, and none of the tasks drained before the stop.
C12_DrainAfterRestart ==
  [][\A t \in Threads, sid \in QueueAgents :
       (/\ last.op = "restart" /\ last'.op = "TASKING_REQUEST"
        /\ RequestFrame(t, sid))
       => Handed(last') = Undrained(sid)]_vars

\* C7: the ids returned by any TaskIdModulus consecutive add_agent_task_db
\* calls on one agent are pairwise distinct.
C7_IdsDistinct ==
  \A a \in SessionIds : \A i, j \in 1..Len(IdsOf(a)) :
     (i < j /\ j - i < TaskIdModulus) => IdsOf(a)[i] # IdsOf(a)[j]

\* C8: enqueuing TaskIdModulus + 1 tasks to a fresh agent, each one after the
\* tasks before it were drained, returns the ids 1, .., TaskIdModulus - 1, 0, 1:
\* the k-th call returns k mod TaskIdModulus.
C8_WrapSequence ==
  [][\A sid \in QueueAgents :
       (/\ last'.op = "enqueue" /\ last'.out.kind = "task_id"
        /\ Enqueue(OperatorThread, sid)
        /\ \A k \in 1..Len(taskRows) : Delivered(k)
        /\ Len(IdsOf(sid)) <= TaskIdModulus)
       => last'.out.id = (Len(IdsOf(sid)) + 1) % TaskIdModulus]_vars

\* the result rows of a (task id, agent) pair
ResultsOf(id, a) == {j \in 1..Len(resultRows) : resultRows[j].id = id /\ resultRows[j].agent = a}

\* the task rows of a (task id, agent) pair
TasksOf(id, a) == {i \in 1..Len(taskRows) : taskRows[i].id = id /\ taskRows[i].agent = a}

\* C9: after any sequence of add_agent_task_db calls, every task row (k, a)
\* has exactly one result row (k, a), and every result row has a task row of
\* the same id and agent.
C9_OneResultPerTask ==
  /\ \A i \in 1..Len(taskRows) :
        Cardinality(ResultsOf(taskRows[i].id, taskRows[i].agent)) = 1
  /\ \A j \in 1..Len(resultRows) : TasksOf(resultRows[j].id, resultRows[j].agent) # {}

\* C10: a result post changes only result rows of the posting agent that
\* have a task row of the same id and agent, it adds no row, and a packet
\* whose task_id has no task row of the agent changes no row of table results.
C10_ResultNeedsTask ==
  [][last'.op = "RESULT_POST" =>
       /\ Len(resultRows') = Len(resultRows)
       /\ \A j \in 1..Len(resultRows) :
             resultRows'[j] # resultRows[j] =>
               /\ resultRows'[j].id = resultRows[j].id
               /\ resultRows'[j].agent = resultRows[j].agent
               /\ resultRows[j].agent = last'.sid
               /\ TasksOf(resultRows[j].id, resultRows[j].agent) # {}
       /\ \A m \in TaskMsgs :
             (/\ ResultFrame(MainThread, last'.sid, m)
              /\ TasksOf(m.packets[1].taskID, last'.sid) = {})
             => resultRows' = resultRows]_vars

\* a post of an agent without task rows was accepted while the other agent has
\* a result stored and a result still blank
C10_Witness ==
  /\ last.op = "RESULT_POST" /\ last.out = [kind |-> "text", text |-> <<"VALID">>]
  /\ \A i \in 1..Len(taskRows) : taskRows[i].agent # last.sid
  /\ \E j \in 1..Len(resultRows) : resultRows[j].data = "d1"
  /\ \E j \in 1..Len(resultRows) : resultRows[j].data = None

----------------------------------------------------------------------------
(* The calls of several threads, interleaved at the points where the code   *)
(* holds no lock or where another call does not take it                      *)

\* the result posts sent for known and unknown session_ids
UnknownMsgs ==
  { [key |-> "k1", wellformed |-> TRUE, packets |-> <<Packet("TASK_SHELL", 1, "d1", NoDl)>>] }

\* frames for session_ids the cache does not hold, next to agents with tasks,
\* results and removals
NextUnknown ==
  \/ \E sid \in SessionIds :
        Stage1Frame(MainThread, sid, "python", [hmac |-> TRUE, wellformed |-> TRUE], "k1", 3)
  \/ \E sid \in QueueAgents : Enqueue(OperatorThread, sid)
  \/ \E sid \in SessionIds : RequestFrame(MainThread, sid)
  \/ \E sid \in SessionIds, m \in UnknownMsgs : ResultFrame(MainThread, sid, m)
  \/ \E sid \in SessionIds : RemoveAgent(OperatorThread, sid)

SpecUnknown == Init /\ [][NextUnknown]_vars

NotInCache(sid) == [kind |-> "text", text |-> <<"ERROR", ": sessionID not in cache">>]

\* C17: a TASKING_REQUEST or RESULT_POST frame for a session_id the cache does
\* not hold changes nothing in the cache, the tables or the files, and its
\* reply is the error entry or null
C17_UnknownChangesNothing ==
  [][\A sid \in SessionIds :
       ( /\ sid \notin DOMAIN agents
         /\ last'.op \in {"TASKING_REQUEST", "RESULT_POST"}
         /\ last'.sid = sid )
       => ( /\ UNCHANGED <<agents, dbAgents, taskRows, resultRows, dirty, dirs, files>>
            /\ last'.exc = NoExc
            /\ last'.out \in {NoOut, NotInCache(sid)} )]_vars

\* a frame for an unknown session_id was answered while another agent had a
\* drained queue whose clearing is still pending in the session of the thread
C17_Witness ==
  /\ last.op \in {"TASKING_REQUEST", "RESULT_POST"}
  /\ last.sid \notin DOMAIN agents
  /\ last.out = NotInCache(last.sid)
  /\ dirty[MainThread] # {}
  /\ taskRows # <<>>

\* a STAGE1 frame of a python agent, up to the commit of add_agent
AddAgentBegin(t, sid, nonce) ==
  /\ pc[t] = Idle
  /\ LET w == AddAgentInsert(World, t, sid, "k1", nonce, "") IN
     /\ Write(w)
     /\ IF w.exc # NoExc
        THEN Finish(w, "STAGE1", sid) /\ UNCHANGED pc
        ELSE /\ pc' = [pc EXCEPT ![t] = [at |-> "add_agent", sid |-> sid, key |-> "k1",
                                          nonce |-> nonce]]
             /\ UNCHANGED <<delivered, last>>
  /\ UNCHANGED <<autorun, diskFull, lock>>

\* add_agent from the cache update on, and the reply of STAGE1
AddAgentEnd(t) ==
  /\ pc[t].at = "add_agent"
  /\ LET w == Return(AddAgentCache(World, pc[t].sid, pc[t].key),
                     [kind |-> "stage1", nonce |-> pc[t].nonce, key |-> "serverPub"])
     IN  Write(w) /\ Finish(w, "STAGE1", pc[t].sid)
  /\ pc' = [pc EXCEPT ![t] = Idle]
  /\ UNCHANGED <<autorun, diskFull, lock>>

\* remove_agent_db up to the cache update: the lock is taken
RemoveAgentBegin(t, x) ==
  /\ pc[t] = Idle /\ lock = None
  /\ LET w1 == IF IsAll(x) THEN World ELSE Flush(World, t)
         target == RemoveTarget(w1, x)
     IN  /\ Write(RemoveAgentCache(w1, x, target))
         /\ pc' = [pc EXCEPT ![t] = [at |-> "remove_agent_db", x |-> x, target |-> target]]
  /\ lock' = t
  /\ UNCHANGED <<autorun, diskFull, delivered, last>>

\* self.lock.release(): a threading.Lock does not know its holder, only a
\* release of a lock nobody holds fails
Release(w) == IF lock = None THEN Raise(w, "RuntimeError") ELSE w

\* remove_agent_db from the DELETE on: the lock is released
RemoveAgentEnd(t) ==
  /\ pc[t].at = "remove_agent_db"
  /\ LET w == Release(RemoveAgentDelete(World, pc[t].target))
     IN  Write(w) /\ Finish(w, "remove", pc[t].x)
  /\ pc' = [pc EXCEPT ![t] = Idle]
  /\ lock' = None
  /\ UNCHANGED <<autorun, diskFull>>

\* a call that takes the lock on its way, run from start to end
Whole(t, A) == pc[t] = Idle /\ lock = None /\ A

\* the STAGE2 plaintexts of an agent that holds key k1 and was sent nonce 3
CheckinMsgs ==
  { m \in Stage2Msgs : m.key = "k1" /\ m.nfields = 12 /\ m.isint /\ m.n0 \in {3, 4}
                       /\ m.domain = "" }

NextStore ==
  \/ Restart
  \/ \E t \in Threads, sid \in SessionIds : AddAgentBegin(t, sid, 3)
  \/ \E t \in Threads : AddAgentEnd(t)
  \/ \E t \in Threads, x \in RemoveArgs : RemoveAgentBegin(t, x)
  \/ \E t \in Threads : RemoveAgentEnd(t)
  \/ \E t \in Threads, sid \in SessionIds, m \in CheckinMsgs : Whole(t, Stage2Frame(t, sid, m))
  \/ \E t \in Threads, sid \in SessionIds, m \in ExitMsgs : Whole(t, ResultFrame(t, sid, m))

SpecStore == Init /\ [][NextStore]_vars

\* thread t takes a step of a call that is modelled step by step
StepOf(t) == pc'[t] # pc[t]

\* C19: every step of add_agent and remove_agent_db that changes the cache or
\* table agents is taken while the calling thread holds the lock
C19_MutationsUnderLock ==
  [][\A t \in Threads :
       (StepOf(t) /\ (agents' # agents \/ dbAgents' # dbAgents))
       => (lock = t \/ lock' = t)]_vars

\* no call is in progress
Quiescent == \A t \in Threads : pc[t] = Idle

\* C1: in every quiescent state reached by any interleaving of rehydration,
\* STAGE1, STAGE2, remove_agent_db and TASK_EXIT, the session_ids of
\* self.agents are the session_ids of the persisted agent rows.
C1_CacheMatchesStore == Quiescent => DOMAIN agents = DOMAIN dbAgents

\* add_agent_task_db up to the SELECT of the taskings: the lock is taken
EnqueueBegin(t, x) ==
  /\ pc[t] = Idle /\ Len(taskRows) < MaxTasks
  /\ LET w1  == Flush(World, t)
         sid == ResolveId(w1, x)
     IN  /\ Write(w1)
         /\ IF sid \notin DOMAIN w1.agents
            THEN Finish(Return(w1, NoOut), "enqueue", x) /\ UNCHANGED <<pc, lock>>
            ELSE /\ lock = None /\ lock' = t
                 /\ pc' = [pc EXCEPT ![t] = [at |-> "add_agent_task_db", x |-> x, sid |-> sid,
                                              tasks |-> ReadTaskings(w1, sid)]]
                 /\ UNCHANGED <<delivered, last>>
  /\ UNCHANGED <<autorun, diskFull>>

\* add_agent_task_db from the SELECT max(id) on: the lock is released
EnqueueEnd(t) ==
  /\ pc[t].at = "add_agent_task_db"
  /\ LET w == Release(AddTaskWrite(World, pc[t].sid, NextTaskId(World, pc[t].sid), pc[t].tasks,
                                   Len(taskRows) + 1))
     IN  Write(w) /\ Finish(w, "enqueue", pc[t].x)
  /\ pc' = [pc EXCEPT ![t] = Idle]
  /\ lock' = None
  /\ UNCHANGED <<autorun, diskFull>>

\* handle_agent_request up to the query of get_agent_tasks_db; no lock
DrainBegin(t, sid) ==
  /\ pc[t] = Idle /\ Len(delivered) < MaxDelivered
  /\ LET w1 == IF sid \in DOMAIN agents THEN UpdateAgentLastseenDb(World, t, sid) ELSE World
         id == ResolveId(w1, sid)
     IN  /\ Write(w1)
         /\ IF sid \notin DOMAIN agents \/ w1.exc # NoExc \/ id \notin DOMAIN w1.agents
            THEN Finish(Return(w1, NoOut), "TASKING_REQUEST", sid) /\ UNCHANGED pc
            ELSE IF id \notin DOMAIN w1.db
            THEN Finish(Raise(w1, "AttributeError"), "TASKING_REQUEST", sid) /\ UNCHANGED pc
            ELSE /\ pc' = [pc EXCEPT ![t] = [at |-> "get_agent_tasks_db", x |-> sid, sid |-> id,
                                              tasks |-> w1.db[id].taskings]]
                 /\ UNCHANGED <<delivered, last>>
  /\ UNCHANGED <<autorun, diskFull, lock>>

\* get_agent_tasks_db from "if agent.taskings" on, and the reply of the request
DrainEnd(t) ==
  /\ pc[t].at = "get_agent_tasks_db"
  /\ LET w == IF pc[t].tasks # <<>>
              THEN [World EXCEPT !.dirty[t] = dirty[t] \cup {pc[t].sid},
                                 !.out = [kind |-> "SERVER_RESPONSE", tasks |-> pc[t].tasks,
                                          key |-> agents[pc[t].sid]]]
              ELSE World
     IN  Write(w) /\ Finish(w, "TASKING_REQUEST", pc[t].x)
  /\ pc' = [pc EXCEPT ![t] = Idle]
  /\ UNCHANGED <<autorun, diskFull, lock>>

NextQueue ==
  \/ \E sid \in QueueAgents :
        Whole(MainThread,
              Stage1Frame(MainThread, sid, "python", [hmac |-> TRUE, wellformed |-> TRUE], "k1", 3))
  \/ \E t \in Threads, sid \in QueueAgents : EnqueueBegin(t, sid)
  \/ \E t \in Threads : EnqueueEnd(t)
  \/ \E t \in Threads, sid \in QueueAgents : DrainBegin(t, sid)
  \/ \E t \in Threads : DrainEnd(t)

SpecQueue == Init /\ [][NextQueue]_vars

\* C5: under any interleaving of add_agent_task_db and get_agent_tasks_db on
\* one agent, every task whose enqueue returned a task_id is returned by
\* exactly one drain: once no call is in progress, no task has been handed
\* out twice and every task is either handed out or still waiting.
C5_ExactlyOnce ==
  Quiescent =>
    /\ \A i, j \in 1..Len(delivered) : i # j => delivered[i].body # delivered[j].body
    /\ \A k \in 1..Len(taskRows) :
          Delivered(k) \/ \E i \in 1..Len(Pending(taskRows[k].agent)) :
                            Pending(taskRows[k].agent)[i].body = k

\* add_agent_task_db up to its presence check, which runs before the lock
EnqueueCheck(t, x) ==
  /\ pc[t] = Idle /\ Len(taskRows) < MaxTasks
  /\ LET w1  == Flush(World, t)
         sid == ResolveId(w1, x)
     IN  /\ Write(w1)
         /\ IF sid \notin DOMAIN w1.agents
            THEN Finish(Return(w1, NoOut), "enqueue", x) /\ UNCHANGED pc
            ELSE /\ pc' = [pc EXCEPT ![t] = [at |-> "add_agent_task_db_checked", x |-> x,
                                              sid |-> sid]]
                 /\ UNCHANGED <<delivered, last>>
  /\ UNCHANGED <<autorun, diskFull, lock>>

\* add_agent_task_db: the lock is taken and the taskings are selected
EnqueueLock(t) ==
  /\ pc[t].at = "add_agent_task_db_checked" /\ lock = None
  /\ lock' = t
  /\ pc' = [pc EXCEPT ![t] = [at |-> "add_agent_task_db", x |-> pc[t].x, sid |-> pc[t].sid,
                               tasks |-> ReadTaskings(World, pc[t].sid)]]
  /\ UNCHANGED <<agents, dbAgents, taskRows, resultRows, dirty, dirs, files, autorun,
                 diskFull, fileDirectory, delivered, last>>

NextEnqueue ==
  \/ \E sid \in QueueAgents :
        Whole(MainThread,
              Stage1Frame(MainThread, sid, "python", [hmac |-> TRUE, wellformed |-> TRUE], "k1", 3))
  \/ \E t \in Threads, sid \in QueueAgents : EnqueueCheck(t, sid)
  \/ \E t \in Threads : EnqueueLock(t)
  \/ \E t \in Threads : EnqueueEnd(t)
  \/ \E t \in Threads, x \in RemoveArgs : RemoveAgentBegin(t, x)
  \/ \E t \in Threads : RemoveAgentEnd(t)

SpecEnqueue == Init /\ [][NextEnqueue]_vars

\* C11: an add_agent_task_db whose session_id is not in self.agents when its
\* rows would be inserted, also when remove_agent_db ran after its presence
\* check, inserts no task row and no result row, changes no pending queue and
\* returns no task_id.
C11_NoTaskForAbsentAgent ==
  [][\A t \in Threads :
       (/\ pc[t].at = "add_agent_task_db" /\ EnqueueEnd(t)
        /\ pc[t].sid \notin DOMAIN agents)
       => /\ taskRows' = taskRows /\ resultRows' = resultRows
          /\ \A a \in DOMAIN dbAgents : a \in DOMAIN dbAgents' /\
                                          dbAgents'[a].taskings = dbAgents[a].taskings
          /\ last'.out = NoOut]_vars

----------------------------------------------------------------------------
(* Downloads *)

\* remote paths, split on "\\": plain, nested, and climbing out of the
\* directory of the agent; "downloads" "x" is a name that starts with downloads
DownloadPaths ==
  LET f  == <<"f">>
      up == <<"..">>
  IN  { <<f>>, <<<<"sub">>, f>>, <<up, f>>, <<up, up, f>>, <<up, up, <<"etc">>, f>>,
        <<up, up, <<"downloads", "x">>, f>>, <<up, up, up, <<"opt">>, <<"downloads">>, f>> }

DownloadMsgs ==
  { [key |-> "k1", wellformed |-> TRUE,
     packets |-> <<Packet("TASK_DOWNLOAD", 1, "d1",
                          [nparts |-> n, index |-> i, path |-> p, total |-> 1])>>] :
      n \in {3, 4}, i \in {0, 1}, p \in DownloadPaths }

\* a result post that carries one chunk of a download
DownloadFrame(t, sid, m) ==
  /\ \A f \in DOMAIN files : Len(files[f]) < MaxChunks
  /\ ResultFrame(t, sid, m)

NextFile ==
  \/ \E sid \in SessionIds :
        Stage1Frame(MainThread, sid, "python", [hmac |-> TRUE, wellformed |-> TRUE], "k1", 3)
  \/ \E sid \in SessionIds, m \in DownloadMsgs : DownloadFrame(MainThread, sid, m)

SpecFile == Init /\ [][NextFile]_vars

\* the directory <install>/downloads, as path components
DownloadsDir == AbsComps(InstallPath \o <<"downloads", "/">>)

\* the file lies in the directory <install>/downloads or below it
InsideDownloads(f) ==
  /\ Len(AbsComps(f)) > Len(DownloadsDir)
  /\ SubSeq(AbsComps(f), 1, Len(DownloadsDir)) = DownloadsDir

\* C3: for every agent and every remote path, save_file writes a file only at
\* a location inside the directory <install>/downloads/.
C3_WritesInsideDownloads == \A f \in DOMAIN files : InsideDownloads(f)

\* C4: handle_agent_data returns normally for every inbound frame in every
\* reachable state; no frame ends in an exception that reaches the listener.
C4_NeverRaises ==
  last.op \in StagingMetas \cup {"TASKING_REQUEST", "RESULT_POST"} => last.exc = NoExc

----------------------------------------------------------------------------
(* Result posts of several packets *)

\* the packets of the bodies tried: a text result of task 1, a chunk of a
\* download, and a chunk whose announced file size is 0
BatchPackets ==
  { Packet("TASK_SHELL", 1, "d1", NoDl),
    Packet("TASK_DOWNLOAD", 1, "d1", [nparts |-> 4, index |-> 0, path |-> <<<<"f">>>>, total |-> 1]),
    Packet("TASK_DOWNLOAD", 1, "d1", [nparts |-> 4, index |-> 0, path |-> <<<<"f">>>>, total |-> 0]) }

\* result posts of one or two packets, sealed with the session key or not
BatchMsgs ==
  { [key |-> k, wellformed |-> TRUE, packets |-> ps] :
      k \in Keys,
      ps \in { <<p>> : p \in BatchPackets } \cup { <<p, q>> : p, q \in BatchPackets } }

\* result posts of several packets for an agent with tasks
NextBatch ==
  \/ \E sid \in QueueAgents :
        Stage1Frame(MainThread, sid, "python", [hmac |-> TRUE, wellformed |-> TRUE], "k1", 3)
  \/ \E sid \in QueueAgents : Enqueue(OperatorThread, sid)
  \/ \E sid \in QueueAgents, m \in BatchMsgs : DownloadFrame(MainThread, sid, m)

SpecBatch == Init /\ [][NextBatch]_vars

\* C18: when the handling of a RESULT_POST body of a known agent fails at any
\* point (it raises, or the handler of the failure answers null), the tables
\* and the cache are as before the post: no packet of the body was applied
C18_FailedPostAppliesNothing ==
  [][\A sid \in SessionIds :
       ( /\ sid \in DOMAIN agents
         /\ last'.op = "RESULT_POST"
         /\ last'.sid = sid
         /\ (last'.exc # NoExc \/ last'.out = NoOut) )
       => /\ Rows(dbAgents') = Rows(dbAgents)
          /\ UNCHANGED <<agents, taskRows, resultRows>>]_vars

----------------------------------------------------------------------------
(* The lock around the cursor of process_agent_packet *)

\* handle_agent_response up to the lock.acquire() of process_agent_packet;
\* cursorOpens tells whether conn.cursor() will succeed
PacketBegin(t, sid, pkt, cursorOpens) ==
  /\ pc[t] = Idle /\ lock = None
  /\ sid \in DOMAIN agents
  /\ \A s \in DOMAIN dbAgents : BufDepth(dbAgents[s].results) < MaxPosts
  /\ LET w1 == UpdateAgentLastseenDb(World, t, sid) IN
     /\ Write(w1)
     /\ IF w1.exc # NoExc
        THEN Finish(w1, "RESULT_POST", sid) /\ UNCHANGED <<pc, lock>>
        ELSE /\ lock' = t
             /\ pc' = [pc EXCEPT ![t] = [at |-> "process_agent_packet", sid |-> sid, pkt |-> pkt,
                                          cursor |-> cursorOpens]]
             /\ UNCHANGED <<delivered, last>>
  /\ UNCHANGED <<autorun, diskFull>>

\* process_agent_packet from conn.cursor() on, and the reply of the post.
\* When the cursor does not open, cur is unbound in the finally block:
\* cur.close() raises before lock.release() is reached
PacketEnd(t) ==
  /\ pc[t].at = "process_agent_packet" /\ lock = t
  /\ IF pc[t].cursor
     THEN LET w2 == ProcessAgentPacket(World, t, pc[t].sid, pc[t].pkt)
              w  == IF w2.exc # NoExc THEN Return([w2 EXCEPT !.exc = NoExc], NoOut)
                    ELSE Return(w2, [kind |-> "text", text |-> <<"VALID">>])
          IN  Write(w) /\ Finish(w, "RESULT_POST", pc[t].sid) /\ lock' = None
     ELSE LET w == Return(Emit(World, "Error processing result packet"), NoOut)
          IN  Write(w) /\ Finish(w, "RESULT_POST", pc[t].sid) /\ UNCHANGED lock
  /\ pc' = [pc EXCEPT ![t] = Idle]
  /\ UNCHANGED <<autorun, diskFull>>

NextLock ==
  \/ \E sid \in QueueAgents :
        Whole(MainThread,
              Stage1Frame(MainThread, sid, "python", [hmac |-> TRUE, wellformed |-> TRUE], "k1", 3))
  \/ \E t \in Threads, sid \in QueueAgents : EnqueueBegin(t, sid)
  \/ \E t \in Threads : EnqueueEnd(t)
  \/ \E t \in Threads, sid \in QueueAgents, m \in UnknownMsgs, c \in BOOLEAN :
        PacketBegin(t, sid, m.packets[1], c)
  \/ \E t \in Threads : PacketEnd(t)

SpecLock == Init /\ [][NextLock]_vars

\* C20: whenever an operation that acquired the lock ends (normally, by an
\* early return, or by a failure, the failure to open the cursor in
\* process_agent_packet included), the lock is no longer held by its thread
C20_LockReleasedAtEnd ==
  [][\A t \in Threads :
       (pc[t] # Idle /\ lock = t /\ pc'[t] = Idle) => lock' # t]_vars

----------------------------------------------------------------------------
(* Renaming *)

\* the STAGE2 plaintext that activates an agent sent nonce 3
ValidCheckins == { m \in CheckinMsgs : m.n0 = 4 }

\* agents are created, activated, given tasks and renamed
NextRename ==
  \/ \E sid \in SessionIds :
        Stage1Frame(MainThread, sid, "python", [hmac |-> TRUE, wellformed |-> TRUE], "k1", 3)
  \/ \E sid \in SessionIds, m \in ValidCheckins : Stage2Frame(MainThread, sid, m)
  \/ \E sid \in QueueAgents : Enqueue(OperatorThread, sid)
  \/ \E old \in Names, new \in Names : Rename(OperatorThread, old, new)

SpecRename == Init /\ [][NextRename]_vars

\* some agent row carries that name
NameUsed(name) == \E s \in DOMAIN dbAgents : dbAgents[s].name = name

\* C21: a successful rename_agent(old, new) changes the name of the row of
\* the agent and nothing else in the cache and the tables; a rename_agent
\* of an agent whose new name is not alphanumeric or is the name of another
\* agent returns False and leaves the cache and table agents as they were
C21_RenameFrame ==
  [][\A old \in Names, new \in Names :
       (last'.op = "rename" /\ last'.sid = old /\ Rename(OperatorThread, old, new))
       => /\ (last'.exc = NoExc /\ last'.out = Bool(TRUE))
             => /\ NameUsed(old)
                /\ agents' = agents
                /\ taskRows' = taskRows
                /\ resultRows' = resultRows
                /\ dbAgents' = [dbAgents EXCEPT ![GetAgentIdDb(World, old)].name = new]
          /\ (NameUsed(old) /\ (~IsAlnum(new) \/ (new # old /\ NameUsed(new))))
             => /\ last'.exc = NoExc
                /\ last'.out = Bool(FALSE)
                /\ agents' = agents
                /\ dbAgents' = dbAgents]_vars

\* the session_ids that arrive in routing packets: the agent picks them, and
\* nothing on the way to add_agent looks at their characters
WireIds == {"s1", "n1", "n-1"}

\* agents are created, renamed and removed
NextName ==
  \/ \E sid \in WireIds :
        Stage1Frame(MainThread, sid, "python", [hmac |-> TRUE, wellformed |-> TRUE], "k1", 3)
  \/ \E old \in Names, new \in Names : Rename(OperatorThread, old, new)
  \/ \E x \in WireIds : RemoveAgent(OperatorThread, x)

SpecName == Init /\ [][NextName]_vars

\* no two rows of table agents carry the same name
NamesUnique ==
  \A s1 \in DOMAIN dbAgents, s2 \in DOMAIN dbAgents :
     dbAgents[s1].name = dbAgents[s2].name => s1 = s2

\* C22: in every state reached by STAGE1, rename_agent and remove_agent_db,
\* no two agents have the same name and every agent's name is alphanumeric
C22_NamesUniqueAlnum ==
  /\ NamesUnique
  /\ \A s \in DOMAIN dbAgents : IsAlnum(dbAgents[s].name)

----------------------------------------------------------------------------
(* Removal and the queue *)

\* an agent is created, given tasks, drained, removed and created again
NextDiscard ==
  \/ \E sid \in QueueAgents :
        Stage1Frame(MainThread, sid, "python", [hmac |-> TRUE, wellformed |-> TRUE], "k1", 3)
  \/ \E sid \in QueueAgents : Enqueue(OperatorThread, sid)
  \/ \E sid \in QueueAgents : RequestFrame(MainThread, sid)
  \/ \E x \in QueueAgents \cup {"all"} : RemoveAgent(OperatorThread, x)
  \/ Restart

SpecDiscard == Init /\ [][NextDiscard]_vars

\* a removal has just finished that took the agent of task k out of the cache
RemovedWith(k) ==
  /\ last.op = "remove"
  /\ k <= Len(taskRows)
  /\ taskRows[k].agent \notin DOMAIN agents

\* a TASKING_REQUEST has just handed task k to its agent
Returned(k) ==
  /\ last.op = "TASKING_REQUEST"
  /\ \E i \in 1..Len(Handed(last)) : Handed(last)[i].body = k

----------------------------------------------------------------------------
(* Autorun *)

\* set_autoruns_db(taskCommand, moduleData), by the operator
SetAutoruns ==
  /\ ~autorun
  /\ autorun' = TRUE
  /\ UNCHANGED <<agents, dbAgents, taskRows, resultRows, dirty, dirs, files, diskFull,
                 fileDirectory, delivered, last, pc, lock>>

\* agents stage while a global autorun is or is not configured
NextAutorun ==
  \/ SetAutoruns
  \/ \E sid \in SessionIds :
        Stage1Frame(MainThread, sid, "python", [hmac |-> TRUE, wellformed |-> TRUE], "k1", 3)
  \/ \E sid \in SessionIds, m \in ValidCheckins : Stage2Frame(MainThread, sid, m)

SpecAutorun == Init /\ [][NextAutorun]_vars

\* C24: with a global autorun configured, a STAGE2 message for an agent that
\* is already activated, a replay of its first valid one included, enqueues
\* no further autorun task
C24_AutorunOnce ==
  [][\A sid \in SessionIds :
       (Activated(sid) /\ last'.op = "STAGE2" /\ last'.sid = sid)
       => taskRows' = taskRows]_vars

----------------------------------------------------------------------------
(* Directory listings *)

\* the items of the listings tried: a file, a sub-directory, and an item that
\* carries the path of the listed directory itself
DirItems(path) ==
  { [name |-> "f", path |-> path \o <<"f">>, is_file |-> TRUE],
    [name |-> "a", path |-> <<"a">>, is_file |-> FALSE],
    [name |-> "x", path |-> path, is_file |-> FALSE] }

\* TASK_DIR_LIST responses for the directories <<>> (the root) and <<"a">>
DirResponses ==
  { [name |-> n, path |-> p, items |-> its] :
      n \in {"d"}, p \in {<<>>, <<"a">>},
      its \in {<<>>} \cup { <<i>> : i \in DirItems(<<"a">>) }
                    \cup { <<i, j>> : i, j \in DirItems(<<"a">>) } }

\* update_dir_list(sid, resp), as process_agent_packet calls it
DirList(t, sid, resp) ==
  /\ MaxIdOf(fileDirectory.rows) + 1 + Len(resp.items) <= MaxRowId
  /\ LET w == UpdateDirList(World, t, sid, resp) IN
     /\ Write(w)
     /\ last' = [op |-> "TASK_DIR_LIST", sid |-> sid, resp |-> resp, out |-> w.out,
                 exc |-> w.exc, events |-> w.events]
  /\ UNCHANGED <<autorun, diskFull, delivered, pc, lock>>

\* PRAGMA foreign_keys = ON, before the table has rows
EnforceForeignKeys ==
  /\ ~fileDirectory.fk /\ fileDirectory.rows = {}
  /\ fileDirectory' = [fileDirectory EXCEPT !.fk = TRUE]
  /\ UNCHANGED <<agents, dbAgents, taskRows, resultRows, dirty, dirs, files, autorun, diskFull,
                 delivered, last, pc, lock>>

NextDir ==
  \/ EnforceForeignKeys
  \/ \E sid \in QueueAgents :
        Stage1Frame(MainThread, sid, "python", [hmac |-> TRUE, wellformed |-> TRUE], "k1", 3)
  \/ \E sid \in QueueAgents, resp \in DirResponses : DirList(MainThread, sid, resp)

SpecDir == Init /\ [][NextDir]_vars

\* the world the step leaves
WorldAfter == [agents |-> agents', db |-> dbAgents', tasks |-> taskRows',
               results |-> resultRows', dirty |-> dirty', dirs |-> dirs', files |-> files',
               disk |-> diskFull', fd |-> fileDirectory',
               events |-> {}, exc |-> NoExc, out |-> NoOut]

\* the directory a row hangs under, without ids: its name and path, or that
\* there is none ('None', or an id no row has)
ParentOf(r, rows) ==
  IF \E q \in rows : q.id = r.parent
  THEN LET q == CHOOSE q \in rows : q.id = r.parent IN <<q.name, q.path>>
  ELSE <<>>

\* a row without its id
Mirror(r, rows) ==
  [sid |-> r.sid, name |-> r.name, path |-> r.path, is_file |-> r.is_file,
   parent |-> ParentOf(r, rows)]

\* the rows of the table without ids, each with the number of times it occurs
MirrorRows(rows) ==
  LET ms == { Mirror(r, rows) : r \in rows }
  IN  [m \in ms |-> Cardinality({r \in rows : Mirror(r, rows) = m})]

\* C25: applying a TASK_DIR_LIST response a second time leaves the rows of
\* file_directory, compared without their ids, as the first application left
\* them, for every directory and item list
C25_DirListIdempotent ==
  [][(last'.op = "TASK_DIR_LIST" /\ last' # last)
       => MirrorRows(UpdateDirList(WorldAfter, MainThread, last'.sid, last'.resp).fd.rows) =
          MirrorRows(fileDirectory'.rows)]_vars

----------------------------------------------------------------------------
(* Result posts in another order *)

\* the posts whose order is exchanged: the chunks of index 0 and 1 of one
\* download, and two text results of task 1
OrderMsgs ==
  { [key |-> "k1", wellformed |-> TRUE,
     packets |-> <<Packet("TASK_DOWNLOAD", 1, d,
                          [nparts |-> 4, index |-> i, path |-> <<<<"f">>>>, total |-> 1])>>] :
      <<i, d>> \in {<<0, "d0">>, <<1, "d1">>} }
  \cup
  { [key |-> "k1", wellformed |-> TRUE, packets |-> <<Packet("TASK_SHELL", 1, d, NoDl)>>] :
      d \in {"d2"} }

\* the world after the listener handled the post m of sid
Posted(w, sid, m) ==
  LET r == HandleAgentData(w, MainThread, Frame(sid, "python", "RESULT_POST", m, None, 0),
                           autorun, TRUE)
  IN  [r EXCEPT !.events = {}, !.exc = NoExc, !.out = NoOut]

NextOrder ==
  \/ \E sid \in QueueAgents :
        Stage1Frame(MainThread, sid, "python", [hmac |-> TRUE, wellformed |-> TRUE], "k1", 3)
  \/ \E sid \in QueueAgents : Enqueue(OperatorThread, sid)
  \/ \E sid \in QueueAgents, m \in OrderMsgs : DownloadFrame(MainThread, sid, m)

SpecOrder == Init /\ [][NextOrder]_vars

\* C26: two result posts of one session, handled in either order, leave the
\* same rows of table results and the same content of every downloaded file;
\* the chunks of index 0 and 1 of one download are among the posts.
C26_PostOrderIrrelevant ==
  \A sid \in DOMAIN agents : \A m1, m2 \in OrderMsgs :
     LET a == Posted(Posted(World, sid, m1), sid, m2)
         b == Posted(Posted(World, sid, m2), sid, m1)
     IN  a.results = b.results /\ a.files = b.files

----------------------------------------------------------------------------
(* Downloads of a renamed agent *)

\* a result post with the first chunk of the file f
MoveMsgs ==
  { [key |-> "k1", wellformed |-> TRUE,
     packets |-> <<Packet("TASK_DOWNLOAD", 1, "d0",
                          [nparts |-> 4, index |-> i, path |-> <<<<"f">>>>, total |-> 1])>>] :
      i \in {0, 1} }

NextMove ==
  \/ \E sid \in QueueAgents :
        Stage1Frame(MainThread, sid, "python", [hmac |-> TRUE, wellformed |-> TRUE], "k1", 3)
  \/ \E old, new \in Names : Rename(OperatorThread, old, new)
  \/ \E sid \in QueueAgents, m \in MoveMsgs : DownloadFrame(MainThread, sid, m)

SpecMove == Init /\ [][NextMove]_vars

\* the files a step wrote
Written == { f \in DOMAIN files' : f \notin DOMAIN files \/ files'[f] # files[f] }

\* C27: a TASK_DOWNLOAD of an agent, renamed or not, writes its file in the
\* directory downloads/<current name>/, the one that holds the agent's log,
\* and not in a directory named by the session_id.
C27_DownloadsFollowName ==
  [][\A sid \in SessionIds :
       (last'.op = "RESULT_POST" /\ last'.sid = sid /\ sid \in DOMAIN dbAgents')
       => /\ Written # {} => dbAgents'[sid].name \in dirs'
          /\ \A f \in Written : Below(f, DownloadDir(dbAgents'[sid].name))]_vars

----------------------------------------------------------------------------
(* The chunks of a download *)

\* result posts of one TASK_DOWNLOAD packet for the file f: the fields split
\* on "|" are 4 or not, the index is 0 or later, the data one of two
ChunkMsgs ==
  { [key |-> "k1", wellformed |-> TRUE,
     packets |-> <<Packet("TASK_DOWNLOAD", 1, d,
                          [nparts |-> n, index |-> i, path |-> <<<<"f">>>>, total |-> 1])>>] :
      n \in {3, 4, 5}, i \in {0, 1, 2}, d \in {"d0", "d1"} }

\* a result post with one chunk; the post is kept in last
ChunkPost(t, sid, m) ==
  /\ \A f \in DOMAIN files : Len(files[f]) < MaxChunks
  /\ LET w == HandleAgentData(World, t, Frame(sid, "python", "RESULT_POST", m, None, 0),
                              autorun, TRUE)
     IN  /\ Write(w)
         /\ last' = [op |-> "RESULT_POST", sid |-> sid, m |-> m,
                     out |-> w.out, exc |-> w.exc, events |-> w.events]
  /\ UNCHANGED <<autorun, diskFull, delivered, pc, lock>>

NextChunk ==
  \/ \E sid \in QueueAgents :
        Stage1Frame(MainThread, sid, "python", [hmac |-> TRUE, wellformed |-> TRUE], "k1", 3)
  \/ \E sid \in SessionIds, m \in ChunkMsgs : ChunkPost(MainThread, sid, m)

SpecChunk == Init /\ [][NextChunk]_vars

\* what the file f holds, nothing when it does not exist
Content(fs, f) == IF f \in DOMAIN fs THEN fs[f] ELSE <<>>

\* C28: a TASK_DOWNLOAD chunk of a known agent with index 0 replaces the
\* content of the file by the chunk, a chunk with another index is appended
\* to what the file holds (so chunks 0..n in this order leave their
\* concatenation), no other file changes, and data that does not split into
\* exactly 4 fields on "|" writes nothing.
C28_ChunksReplaceOrAppend ==
  [][(last'.op = "RESULT_POST" /\ last'.sid \in DOMAIN agents)
       => LET pkt   == last'.m.packets[1]
              f     == TargetFile(last'.sid, pkt.dl.path)
              chunk == ChunkWritten(World, last'.sid, pkt.data)
          IN  IF pkt.dl.nparts # 4 THEN files' = files
              ELSE /\ Content(files', f) =
                        IF pkt.dl.index = 0 THEN <<chunk>> ELSE Append(Content(files, f), chunk)
                   /\ \A g \in (DOMAIN files' \cup DOMAIN files) \ {f} :
                        Content(files', g) = Content(files, g)]_vars

\* chunk 0 and then chunk 1 have arrived: the file holds both, in this order
C28_Witness ==
  /\ last.op = "RESULT_POST" /\ last.sid \in DOMAIN agents
  /\ last.m.packets[1].dl.nparts = 4 /\ last.m.packets[1].dl.index = 1
  /\ \E f \in DOMAIN files : files[f] = << [raw |-> "d0"], [raw |-> "d1"] >>

----------------------------------------------------------------------------
(* The progress of a download *)

MaxTotal == 3   \* the largest file size an agent announces

\* the length in bytes of the data of a chunk
DataBytes(d) == IF d = "d0" THEN 1 ELSE 2

RECURSIVE GetSize(_)
\* os.path.getsize of a file with this content
GetSize(content) ==
  IF content = <<>> THEN 0
  ELSE LET c == Head(content) IN
       (IF "raw" \in DOMAIN c THEN DataBytes(c.raw) ELSE DataBytes(c.dec)) + GetSize(Tail(content))

\* save_file: percent = round(getsize / int(filesize) * 100, 2), in hundredths
\* of a percent, rounded to the nearest
Percent(size, total) == (2 * size * 10000 + total) \div (2 * total)

\* result posts of one chunk of the file f that announce a file size
PercentMsgs ==
  { [key |-> "k1", wellformed |-> TRUE,
     packets |-> <<Packet("TASK_DOWNLOAD", 1, d,
                          [nparts |-> 4, index |-> i, path |-> <<<<"f">>>>, total |-> n])>>] :
      i \in {0, 1}, d \in {"d0", "d1"}, n \in 1..MaxTotal }

NextPercent ==
  \/ \E sid \in SessionIds :
        Stage1Frame(MainThread, sid, "python", [hmac |-> TRUE, wellformed |-> TRUE], "k1", 3)
  \/ \E sid \in SessionIds, m \in PercentMsgs : ChunkPost(MainThread, sid, m)

SpecPercent == Init /\ [][NextPercent]_vars

\* C29: the percentage of every download progress event is at most 100,
\* whatever the size on disk and the announced total (> 0), also when the
\* bytes on disk exceed the total.
C29_PercentAtMost100 ==
  [][(last'.op = "RESULT_POST" /\ "saved" \in last'.events)
       => LET dl == last'.m.packets[1].dl
              f  == TargetFile(last'.sid, dl.path)
          IN  Percent(GetSize(files'[f]), dl.total) <= 100 * 100]_vars

----------------------------------------------------------------------------
(* Results that are files *)

\* result posts of one packet for task 0, 1 or 2: a text, a chunk of a
\* download, or the output of a module to be saved
SaveMsgs ==
  { [key |-> "k1", wellformed |-> TRUE,
     packets |-> <<Packet(op, id, "d0",
                          [nparts |-> 4, index |-> 0, path |-> <<<<"f">>>>, total |-> 1])>>] :
      op \in FileOpcodes \cup {"TASK_SHELL"}, id \in 0..2 }

\* a result post, kept in last
ResultPost(t, sid, m) ==
  /\ \A s \in DOMAIN dbAgents : BufDepth(dbAgents[s].results) < MaxPosts
  /\ ChunkPost(t, sid, m)

NextSave ==
  \/ \E sid \in SessionIds :
        Stage1Frame(MainThread, sid, "python", [hmac |-> TRUE, wellformed |-> TRUE], "k1", 3)
  \/ \E sid \in SessionIds : Enqueue(OperatorThread, sid)
  \/ \E sid \in SessionIds, m \in SaveMsgs : ResultPost(MainThread, sid, m)

SpecSave == Init /\ [][NextSave]_vars

\* C30: a result packet with opcode TASK_DOWNLOAD, TASK_CMD_WAIT_SAVE or
\* TASK_CMD_JOB_SAVE leaves every row of table results as it was, whatever
\* its task_id.
C30_FileResultsNotStored ==
  [][(last'.op = "RESULT_POST" /\ last'.m.packets[1].opcode \in FileOpcodes)
       => resultRows' = resultRows]_vars

\* a file result of a known agent was handled whose task_id is the id of one
\* of the agent's result rows
C30_Witness ==
  /\ last.op = "RESULT_POST" /\ last.out = [kind |-> "text", text |-> <<"VALID">>]
  /\ last.m.packets[1].opcode = "TASK_CMD_WAIT_SAVE"
  /\ \E i \in 1..Len(resultRows) :
        resultRows[i].id = last.m.packets[1].taskID /\ resultRows[i].agent = last.sid

----------------------------------------------------------------------------
(* TASK_SYSINFO *)

\* result posts of one TASK_SYSINFO packet: 11, 12 or 13 fields, the domain
\* empty or not
SysinfoMsgs ==
  { [key |-> "k1", wellformed |-> TRUE,
     packets |-> <<Packet("TASK_SYSINFO", id, "d1",
                          [nfields |-> n, domain |-> d, user |-> "u2", hi |-> h,
                           language |-> "python", version |-> "v2"])>>] :
      id \in {0, 1}, n \in {11, 12, 13}, d \in Domains, h \in {"True", "False"} }

NextSysinfo ==
  \/ \E sid \in QueueAgents :
        Stage1Frame(MainThread, sid, "python", [hmac |-> TRUE, wellformed |-> TRUE], "k1", 3)
  \/ \E sid \in QueueAgents, m \in ValidCheckins : Stage2Frame(MainThread, sid, m)
  \/ \E sid \in QueueAgents : Enqueue(OperatorThread, sid)
  \/ \E sid \in QueueAgents, m \in SysinfoMsgs : ResultPost(MainThread, sid, m)

SpecSysinfo == Init /\ [][NextSysinfo]_vars

\* C31: a TASK_SYSINFO result of a known agent with 12 fields or more leaves
\* in the agent row the values a successful STAGE2 persists for the same
\* fields, an empty domain included; one with fewer than 12 fields changes no
\* row and does not remove the agent.
C31_SysinfoAsStage2 ==
  [][(last'.op = "RESULT_POST" /\ last'.sid \in DOMAIN agents)
       => LET f == last'.m.packets[1].dl IN
          IF f.nfields < 12
          THEN Rows(dbAgents') = Rows(dbAgents) /\ agents' = agents
          ELSE /\ last'.sid \in DOMAIN dbAgents'
               /\ dbAgents'[last'.sid].sysinfo = Stage2Sysinfo(f)
               /\ dbAgents'[last'.sid].language = f.language]_vars

----------------------------------------------------------------------------
(* The results buffer *)

MaxAppends == 2   \* texts appended to a buffer between two reads

\* update_agent_results_db(x, r), called on its own
AppendResult(t, x, r) ==
  /\ \A s \in DOMAIN dbAgents : BufDepth(dbAgents[s].results) < MaxAppends
  /\ Apply(UpdateAgentResultsDb(World, t, x, r), "update_results", x)

\* get_agent_results_db(x), by the operator
GetResults(t, x) == Apply(GetAgentResultsDb(World, t, x), "get_results", x)

NextBuffer ==
  \/ \E sid \in SessionIds :
        Stage1Frame(MainThread, sid, "python", [hmac |-> TRUE, wellformed |-> TRUE], "k1", 3)
  \/ \E sid \in SessionIds, r \in Datas : AppendResult(MainThread, sid, r)
  \/ \E sid \in SessionIds : GetResults(OperatorThread, sid)

SpecBuffer == Init /\ [][NextBuffer]_vars

RECURSIVE Appended(_)
\* the texts r1..rn appended to a buffer since it was empty, in their order
Appended(buf) ==
  IF buf = <<>> THEN <<>>
  ELSE LET str == buf[1].json IN
       Append(Appended(SubSeq(str, 1, Len(str) - 2)), str[Len(str)].text)

RECURSIVE Accumulated(_)
\* newline, r1, newline, r2, ...
Accumulated(rs) ==
  IF rs = <<>> THEN <<>>
  ELSE Accumulated(SubSeq(rs, 1, Len(rs) - 1)) \o << [nl |-> TRUE], [text |-> rs[Len(rs)]] >>

\* C32: get_agent_results_db of a known agent returns the texts appended since
\* the last read, each once, unencoded and in their order (newline, r1,
\* newline, r2, ...), and empties the buffer: a read of an empty buffer
\* returns the empty text.
C32_ResultsAccumulate ==
  [][\A sid \in SessionIds :
       (/\ last'.op = "get_results" /\ last'.sid = sid
        /\ sid \in DOMAIN agents /\ sid \in DOMAIN dbAgents)
       => /\ last'.out = [kind |-> "text", text |-> Accumulated(Appended(dbAgents[sid].results))]
          /\ dbAgents'[sid].results = <<>>]_vars

----------------------------------------------------------------------------
(* TASK_UPLOAD *)

\* result posts of one TASK_UPLOAD packet
UploadMsgs ==
  { [key |-> "k1", wellformed |-> TRUE, packets |-> <<Packet("TASK_UPLOAD", id, d, NoDl)>>] :
      id \in 0..2, d \in Datas }

NextUpload ==
  \/ \E sid \in SessionIds :
        Stage1Frame(MainThread, sid, "python", [hmac |-> TRUE, wellformed |-> TRUE], "k1", 3)
  \/ \E sid \in SessionIds : Enqueue(OperatorThread, sid)
  \/ \E sid \in SessionIds, m \in UploadMsgs : ResultPost(MainThread, sid, m)

SpecUpload == Init /\ [][NextUpload]_vars

\* C33: a TASK_UPLOAD result packet changes nothing, whatever its task_id and
\* data: the rows of table results, the results buffer and the row of the
\* agent, and the agent table are as before.
C33_UploadIsNoOp ==
  [][(last'.op = "RESULT_POST" /\ last'.m.packets[1].opcode = "TASK_UPLOAD")
       => resultRows' = resultRows /\ Rows(dbAgents') = Rows(dbAgents) /\ agents' = agents]_vars

----------------------------------------------------------------------------
(* Names that are session_ids *)

NextAlias ==
  \/ \E sid \in SessionIds :
        Stage1Frame(MainThread, sid, "python", [hmac |-> TRUE, wellformed |-> TRUE], "k1", 3)
  \/ \E old, new \in Names : Rename(OperatorThread, old, new)

SpecAlias == Init /\ [][NextAlias]_vars

\* C34: after any sequence of STAGE1 and rename_agent no agent's name is the
\* session_id of another agent, and the lookup every operation starts with
\* takes the session_id of an agent to that agent.
C34_NoNameIsAnotherId ==
  /\ \A a, b \in DOMAIN dbAgents : a # b => dbAgents[a].name # b
  /\ \A s \in DOMAIN dbAgents : ResolveId(World, s) = s

----------------------------------------------------------------------------
(* Results of a task whose id wrapped around *)

\* result posts of one TASK_SHELL packet, for every task_id there is
ShellMsgs ==
  { [key |-> "k1", wellformed |-> TRUE, packets |-> <<Packet("TASK_SHELL", id, "d1", NoDl)>>] :
      id \in 0..(TaskIdModulus - 1) }

NextWrap ==
  \/ \E sid \in QueueAgents :
        Stage1Frame(MainThread, sid, "python", [hmac |-> TRUE, wellformed |-> TRUE], "k1", 3)
  \/ \E sid \in QueueAgents : Enqueue(OperatorThread, sid)
  \/ \E sid \in QueueAgents : RequestFrame(MainThread, sid)
  \/ \E sid \in QueueAgents, m \in ShellMsgs : ResultPost(MainThread, sid, m)

SpecWrap == Init /\ [][NextWrap]_vars

\* C35: a TASK_SHELL result packet of a known agent that carries a task_id
\* add_agent_task_db returned for that agent, the id 0 of the wrap-around
\* included, leaves its data in the result row of that task.
C35_ResultStoredForEveryId ==
  [][(last'.op = "RESULT_POST" /\ last'.sid \in DOMAIN agents)
       => LET pkt == last'.m.packets[1] IN
          \A i \in 1..Len(resultRows) :
             (resultRows[i].id = pkt.taskID /\ resultRows[i].agent = last'.sid)
             => resultRows'[i].data = pkt.data]_vars

----------------------------------------------------------------------------
(* STAGE1 for a session that exists *)

\* the STAGE2 plaintexts of 12 fields with an integer first
RekeyCheckins ==
  { m \in Stage2Msgs : m.nfields = 12 /\ m.isint /\ m.domain = "" /\ m.key = "k1" }

\* one call at a time; every STAGE1 mints one of two keys and one of two nonces
NextRekey ==
  \/ Restart
  \/ \E sid \in SessionIds, l \in {"powershell", "python"}, k \in Keys, n \in Nonces :
        Stage1Frame(MainThread, sid, l, [hmac |-> TRUE, wellformed |-> TRUE], k, n)
  \/ \E sid \in SessionIds, m \in RekeyCheckins : Stage2Frame(MainThread, sid, m)
  \/ \E x \in RemoveArgs : RemoveAgent(MainThread, x)

SpecRekey == Init /\ [][NextRekey]_vars

\* C36: a STAGE1 frame for a session_id that has an agent, staged or
\* activated, leaves the session key of the agent, cached and persisted, and
\* its stored nonce as they are.
C36_Stage1NeverRekeys ==
  [][\A sid \in SessionIds :
       (/\ last'.op = "STAGE1" /\ last'.sid = sid
        /\ sid \in DOMAIN agents /\ sid \in DOMAIN dbAgents)
       => /\ sid \in DOMAIN agents' /\ agents'[sid] = agents[sid]
          /\ sid \in DOMAIN dbAgents'
          /\ dbAgents'[sid].session_key = dbAgents[sid].session_key
          /\ dbAgents'[sid].nonce = dbAgents[sid].nonce]_vars

\* a STAGE1 frame arrived for an activated agent; it would have brought
\* another key and another nonce
C36_Witness ==
  /\ last.op = "STAGE1" /\ last.exc # NoExc
  /\ last.sid \in DOMAIN agents /\ Activated(last.sid)
  /\ agents[last.sid] = "k1" /\ dbAgents[last.sid].nonce = 3

----------------------------------------------------------------------------
(* Agents that have not passed STAGE2 *)

NextServe ==
  \/ \E sid \in QueueAgents :
        Stage1Frame(MainThread, sid, "python", [hmac |-> TRUE, wellformed |-> TRUE], "k1", 3)
  \/ \E sid \in QueueAgents, m \in ValidCheckins : Stage2Frame(MainThread, sid, m)
  \/ \E sid \in QueueAgents : Enqueue(OperatorThread, sid)
  \/ \E sid \in QueueAgents : RequestFrame(MainThread, sid)
  \/ \E sid \in QueueAgents, m \in ShellMsgs : ResultPost(MainThread, sid, m)

SpecServe == Init /\ [][NextServe]_vars

\* C37: for an agent that has passed STAGE1 only, a TASKING_REQUEST is
\* answered without task packets and the packets of a RESULT_POST are not
\* applied: tasks are served and results taken only after a successful STAGE2.
C37_ServedOnlyAfterStage2 ==
  [][\A sid \in SessionIds :
       (/\ last'.sid = sid /\ sid \in DOMAIN agents /\ ~Activated(sid))
       => /\ last'.op = "TASKING_REQUEST" => last'.out.kind # "SERVER_RESPONSE"
          /\ last'.op = "RESULT_POST" =>
                resultRows' = resultRows /\ Rows(dbAgents') = Rows(dbAgents)]_vars

----------------------------------------------------------------------------
(* handle_agent_data with update_lastseen = False *)

\* a frame of any meta tag, handed over with update_lastseen = False
QuietFrame(t, sid, meta, m) ==
  /\ Len(delivered) < MaxDelivered
  /\ \A s \in DOMAIN dbAgents : BufDepth(dbAgents[s].results) < MaxPosts
  /\ Apply(HandleAgentData(World, t, Frame(sid, "python", meta, m, "k1", 3), autorun, FALSE),
           meta, sid)

NextQuiet ==
  \/ \E sid \in SessionIds : Enqueue(OperatorThread, sid)
  \/ \E sid \in SessionIds :
        QuietFrame(MainThread, sid, "STAGE1", [hmac |-> TRUE, wellformed |-> TRUE])
  \/ \E sid \in SessionIds, m \in ValidCheckins : QuietFrame(MainThread, sid, "STAGE2", m)
  \/ \E sid \in SessionIds : QuietFrame(MainThread, sid, "TASKING_REQUEST", NoMsg)
  \/ \E sid \in SessionIds, m \in ShellMsgs : QuietFrame(MainThread, sid, "RESULT_POST", m)

SpecQuiet == Init /\ [][NextQuiet]_vars

\* C38: a handle_agent_data called with update_lastseen = False leaves the
\* lastseen_time of every agent as it was, whatever the meta tag of the frame,
\* TASKING_REQUEST and RESULT_POST included.
C38_QuietKeepsLastseen ==
  [][last'.op \in StagingMetas \cup {"TASKING_REQUEST", "RESULT_POST"}
       => \A s \in DOMAIN dbAgents \cap DOMAIN dbAgents' :
             dbAgents'[s].lastseen = dbAgents[s].lastseen]_vars

----------------------------------------------------------------------------
(* Who releases the lock *)

\* remove_agent_db(x) whose name lookup fails on the store: the finally block
\* releases the lock that was never acquired
RemoveAgentFail(t, x) ==
  /\ pc[t] = Idle /\ ~IsAll(x)
  /\ LET w == Release(Raise(World, "OperationalError"))
     IN  Write(w) /\ Finish(w, "remove", x)
  /\ lock' = None
  /\ UNCHANGED <<autorun, diskFull, pc>>

NextRelease ==
  \/ \E sid \in QueueAgents :
        Whole(MainThread,
              Stage1Frame(MainThread, sid, "python", [hmac |-> TRUE, wellformed |-> TRUE], "k1", 3))
  \/ \E t \in Threads, sid \in QueueAgents : EnqueueBegin(t, sid)
  \/ \E t \in Threads : EnqueueEnd(t)
  \/ \E t \in Threads, x \in QueueAgents : RemoveAgentBegin(t, x)
  \/ \E t \in Threads : RemoveAgentEnd(t)
  \/ \E t \in Threads, x \in QueueAgents : RemoveAgentFail(t, x)

SpecRelease == Init /\ [][NextRelease]_vars

\* C39: the lock is released only by the thread that holds it, in every
\* interleaving, a remove_agent_db that fails in its name lookup before it has
\* taken the lock included: the lock leaves its holder only in a step of the
\* holder, and nobody releases a lock that is not held.
C39_ReleasedByHolderOnly ==
  [][/\ (lock # None /\ lock' # lock) => StepOf(lock)
     /\ last' # last => last'.exc # "RuntimeError"]_vars

----------------------------------------------------------------------------
(* Progress *)

\* listener and operator threads: results are posted, tasks are enqueued;
\* a call waits in add_agent_task_db_checked until it gets the lock
NextLive ==
  \/ \E sid \in QueueAgents :
        Whole(MainThread,
              Stage1Frame(MainThread, sid, "python", [hmac |-> TRUE, wellformed |-> TRUE], "k1", 3))
  \/ \E t \in Threads, sid \in QueueAgents : EnqueueCheck(t, sid)
  \/ \E t \in Threads : EnqueueLock(t)
  \/ \E t \in Threads : EnqueueEnd(t)
  \/ \E t \in Threads, sid \in QueueAgents, m \in UnknownMsgs, c \in BOOLEAN :
        PacketBegin(t, sid, m.packets[1], c)
  \/ \E t \in Threads : PacketEnd(t)

\* every thread inside a call goes on, and a thread that waits for the lock
\* gets it if it is free again and again
SpecLive ==
  /\ Init /\ [][NextLive]_vars
  /\ \A t \in Threads : WF_vars(EnqueueEnd(t)) /\ WF_vars(PacketEnd(t)) /\ SF_vars(EnqueueLock(t))

\* C40: under fair scheduling every call that has started completes: no
\* thread waits for the lock forever, also after a call of another thread has
\* failed.
C40_EveryCallCompletes ==
  \A t \in Threads : [](pc[t] # Idle => <>(pc[t] = Idle))

====
